---- MODULE Spec2Model ----
(***************************************************************************)
(* Model of the reconciliation engine of breathe-OSS/api:                  *)
(*   app/services/fetchers.py  (zone cache, fallback cascade, multi-node   *)
(*                              aggregation, spike guard)                  *)
(*   app/core/database.py      (persisted readings)                        *)
(*   app/core/conversions.py   (index calculation, as far as it can fail)  *)
(*                                                                         *)
(* Time is the wall clock in seconds.  Concentrations are exact rationals  *)
(* [num, den] wherever the code averages.  Python's None is the value      *)
(* None for numbers and NoSnapshot / NoData for dictionaries.              *)
(***************************************************************************)
EXTENDS Integers, Sequences, FiniteSets, TLC

\* Python's None in a numeric position (concentrations and timestamps are >= 0).
None == 0 - 1
\* A timestamp string that datetime.fromisoformat rejects.
BadTs == 0 - 2

--------------------------------------------------------------------------
\* Program constants.

CACHE_DURATION == 900
SPIKE_GRACE_PERIOD == 3600
MAX_AGE_SECONDS == 3600
STALE_LIMIT == 3600
ABS_PM25_LIMIT == 650
ABS_PM10_LIMIT == 600
JUMP_LIMIT == 200
JUMP_WINDOW == 5400
NODE_HISTORY_HOURS == 2
BACKFILL_CHECK_HOURS == 1

--------------------------------------------------------------------------
\* Bounds of the model.

\* The wall clock at start (any value large enough that no timestamp is negative).
T0 == 100000
\* How many times the clock may advance in a behaviour of Spec.
MaxTicks == 1
\* How many aggregation calls may be made in a behaviour of SpecAgg, and
\* how many times its clock may advance.
MaxAggs == 3
MaxAggTicks == 2

\* The clock advances in steps of one cache duration under Spec and of half
\* a grace period under SpecAgg.
TickLen == CACHE_DURATION
AggTickLen == SPIKE_GRACE_PERIOD \div 2

--------------------------------------------------------------------------
\* Zone configuration (app/core/config.py).

ZONES == {"srinagar", "rajouri_town", "budgam_town"}

SRINAGAR_AIRGRADIENT_NODES == <<"Kanipora", "Bemina">>
JAMMU_AIRGRADIENT_NODES == <<"Talab Tillo", "Gandhi Nagar">>
RAJOURI_AIRGRADIENT_CONFIG == "Rajouri"

\* The nodes get_zone_data selects for a zone (<< >>: no sensor configuration).
NodesOf(zone_id) ==
    CASE zone_id = "srinagar" -> SRINAGAR_AIRGRADIENT_NODES
      [] zone_id = "jammu_city" -> JAMMU_AIRGRADIENT_NODES
      [] zone_id = "rajouri_town" -> <<RAJOURI_AIRGRADIENT_CONFIG>>
      [] OTHER -> << >>

\* The node list handed to the aggregator when it is exercised on its own.
TestNodes == <<"A", "B", "C">>

NodeKey(zone_id, node_name) == zone_id \o "_" \o node_name

NodeKeys ==
    {NodeKey(z, NodesOf(z)[i]) : z \in {"srinagar"}, i \in 1..2}
    \cup {NodeKey("srinagar", TestNodes[i]) : i \in 1..3}

--------------------------------------------------------------------------
\* Python helpers.

\* Truth value of a number-or-None.
Truthy(v) == v # None /\ v # 0

\* a or b
PyOr(a, b) == IF Truthy(a) THEN a ELSE b

Rat(n, d) == [num |-> n, den |-> d]

\* x > k for a rational x and an integer k.
RatGT(x, k) == x.num > k * x.den

RECURSIVE SumOf(_, _)
SumOf(readings, field) ==
    IF readings = << >> THEN 0
    ELSE Head(readings)[field] + SumOf(Tail(readings), field)

RECURSIVE MaxTs(_)
MaxTs(readings) ==
    IF Len(readings) = 1 THEN readings[1].timestamp
    ELSE LET m == MaxTs(Tail(readings))
         IN  IF readings[1].timestamp >= m THEN readings[1].timestamp ELSE m

--------------------------------------------------------------------------
\* app/core/database.py.  A row is [zone_id, timestamp, pm2_5, pm10].

Row(zone_id, ts, pm25, pm10) ==
    [zone_id |-> zone_id, timestamp |-> ts, pm2_5 |-> pm25, pm10 |-> pm10]

\* save_reading as an upsert: the row of an existing pair takes the new values.
save_reading_overwrites(rows, zone_id, pm25, pm10, timestamp) ==
    {r \in rows : ~(r.zone_id = zone_id /\ r.timestamp = timestamp)}
        \cup {Row(zone_id, timestamp, pm25, pm10)}

\* INSERT OR IGNORE under UNIQUE(zone_id, timestamp).
save_reading(rows, zone_id, pm25, pm10, timestamp) ==
    IF \E r \in rows : r.zone_id = zone_id /\ r.timestamp = timestamp
    THEN rows
    ELSE rows \cup {Row(zone_id, timestamp, pm25, pm10)}

\* WHERE zone_id = ? AND timestamp > cutoff (the rows; ORDER BY timestamp ASC
\* is applied where an order is used).
get_history(rows, zone_id, hours, wall) ==
    {r \in rows : r.zone_id = zone_id /\ r.timestamp > wall - hours * 3600}

Abs(x) == IF x < 0 THEN 0 - x ELSE x

\* min(node_history, key=lambda h: abs(h["ts"] - target_ts)) over the rows in
\* ascending order: the first of the nearest rows.
closest_reading(history, target_ts) ==
    CHOOSE h \in history :
        \A g \in history :
            \/ Abs(h.timestamp - target_ts) < Abs(g.timestamp - target_ts)
            \/ /\ Abs(h.timestamp - target_ts) = Abs(g.timestamp - target_ts)
               /\ h.timestamp <= g.timestamp

--------------------------------------------------------------------------
\* current_comps.  A concentration is a rational, PyNone (the key is present
\* and holds None) or Absent (no such key).  ag_timestamp is None when the key
\* _ag_timestamp is absent.  reading_ts is not a key of the dictionary: it
\* records the source timestamps of the sensor readings the values come from.

PyNone == [none |-> TRUE]
Absent == [absent |-> TRUE]
NoData == [nodata |-> TRUE]

Comps(pm25, pm10, ag_timestamp, reading_ts) ==
    [pm2_5 |-> pm25, pm10 |-> pm10, ag_timestamp |-> ag_timestamp,
     node_count |-> 0, total_nodes |-> 0, node_statuses |-> << >>,
     spike_warning |-> FALSE, reading_ts |-> reading_ts]

\* A JSON number-or-null as a concentration.
Conc(v) == IF v = None THEN PyNone ELSE Rat(v, 1)

--------------------------------------------------------------------------
\* Upstream responses.
\*
\* A sensor "current reading" response: kind is "exception" (transport error or
\* timeout), "non200" or "200"; a 200 body carries the corrected and raw PM
\* fields (None: absent or null) and a timestamp (None: absent, BadTs: not ISO,
\* else the epoch seconds the ISO string denotes).
SensorResp(kind, c25, r25, c10, r10, ts) ==
    [kind |-> kind, pm02_corrected |-> c25, pm02 |-> r25,
     pm10_corrected |-> c10, pm10 |-> r10, timestamp |-> ts]

RespException == SensorResp("exception", None, None, None, None, None)
RespNon200 == SensorResp("non200", None, None, None, None, None)

\* dt.timestamp() of the parsed ISO string, or None when the field is absent
\* or the parse raises (the except: pass branches).
parse_timestamp(ts) == IF ts = None \/ ts = BadTs THEN None ELSE ts

--------------------------------------------------------------------------
\* fetch_multi_node_airgradient, the per-node loop (lines 270-357).
\* acc carries valid_readings, node_statuses, spike_warnings and the two
\* shared stores the loop writes: the spike cache and the database.

NodeStatus(node_name, status) == [node |-> node_name, status |-> status]

Exclude(acc, node_name, status, spike) ==
    [acc EXCEPT !.node_statuses = Append(@, NodeStatus(node_name, status)),
                !.spike = spike]

ExcludeWarn(acc, node_name, status, spike) ==
    [acc EXCEPT !.node_statuses = Append(@, NodeStatus(node_name, status)),
                !.spike_warnings = Append(@, NodeStatus(node_name, status)),
                !.spike = spike]

\* InGrace with the boundary included: a record exactly SPIKE_GRACE_PERIOD
\* old still excludes the node.
InGraceInclusive(spike, key, current_time) ==
    /\ spike[key] # None
    /\ current_time - spike[key] <= SPIKE_GRACE_PERIOD

\* if node_cache_key in _SPIKE_CACHE and time_since_spike < SPIKE_GRACE_PERIOD
InGrace(spike, key, current_time) ==
    /\ spike[key] # None
    /\ current_time - spike[key] < SPIKE_GRACE_PERIOD

\* PurgeExpired as a sweep of the whole dictionary: every record whose grace
\* is over is deleted, whatever its key.
PurgeExpiredAll(spike, key, current_time) ==
    [k \in DOMAIN spike |->
        IF spike[k] # None /\ ~InGrace(spike, k, current_time) THEN None ELSE spike[k]]

\* else: del _SPIKE_CACHE[node_cache_key]
PurgeExpired(spike, key, current_time) ==
    IF spike[key] # None /\ ~InGrace(spike, key, current_time)
    THEN [spike EXCEPT ![key] = None]
    ELSE spike

\* if data_age and data_age > MAX_AGE_SECONDS, where data_age is None unless
\* the timestamp was parsed (parsed # None) and is then current_time - parsed.
IsStale(parsed, current_time) ==
    /\ parsed # None
    /\ current_time - parsed # 0
    /\ current_time - parsed > MAX_AGE_SECONDS

\* AbsoluteSpike with the limits themselves counted as spikes.
AbsoluteSpikeInclusive(pm25_val, pm10_val) ==
    pm25_val >= ABS_PM25_LIMIT \/ pm10_val >= ABS_PM10_LIMIT

\* if pm25_val > 650 or pm10_val > 600
AbsoluteSpike(pm25_val, pm10_val) ==
    pm25_val > ABS_PM25_LIMIT \/ pm10_val > ABS_PM10_LIMIT

\* JumpSpike against the latest stored reading of the node, however old.
JumpSpikeAgainstLatest(table, node_zone_id, pm25_val, reading_ts, wall) ==
    LET stored == {r \in table : r.zone_id = node_zone_id}
    IN  /\ stored # {}
        /\ LET latest == CHOOSE r \in stored : \A q \in stored : q.timestamp <= r.timestamp
           IN  pm25_val * latest.pm2_5.den - latest.pm2_5.num > JUMP_LIMIT * latest.pm2_5.den

\* The rate-of-change rule (lines 329-345).
JumpSpike(rows, node_zone_id, pm25_val, reading_ts, wall) ==
    LET node_history == get_history(rows, node_zone_id, NODE_HISTORY_HOURS, wall)
        target_ts == reading_ts - 3600
    IN  /\ node_history # {}
        /\ LET closest == closest_reading(node_history, target_ts)
           IN  /\ Abs(closest.timestamp - target_ts) < JUMP_WINDOW
               /\ pm25_val * closest.pm2_5.den - closest.pm2_5.num
                      > JUMP_LIMIT * closest.pm2_5.den

\* NodeStep with the age of the reading checked before its PM2.5.
NodeStepStaleFirst(acc, zone_id, node_name, resp, current_time, wall) ==
    LET key == NodeKey(zone_id, node_name)
        spike1 == PurgeExpired(acc.spike, key, current_time)
        pm25 == PyOr(resp.pm02_corrected, resp.pm02)
        pm10 == PyOr(resp.pm10_corrected, resp.pm10)
        parsed == parse_timestamp(resp.timestamp)
        reading_ts == IF parsed = None THEN current_time ELSE parsed
        pm25_val == pm25
        pm10_val == IF Truthy(pm10) THEN pm10 ELSE 0
    IN  IF InGrace(acc.spike, key, current_time)
            THEN ExcludeWarn(acc, node_name, "grace_period", acc.spike)
        ELSE IF resp.kind = "exception"
            THEN Exclude(acc, node_name, "error", spike1)
        ELSE IF resp.kind # "200"
            THEN Exclude(acc, node_name, "offline", spike1)
        ELSE IF IsStale(parsed, current_time)
            THEN Exclude(acc, node_name, "stale", spike1)
        ELSE IF pm25 = None
            THEN Exclude(acc, node_name, "no_data", spike1)
        ELSE IF AbsoluteSpike(pm25_val, pm10_val)
            THEN ExcludeWarn(acc, node_name, "spike_detected",
                             [spike1 EXCEPT ![key] = current_time])
        ELSE IF JumpSpike(acc.rows, key, pm25_val, reading_ts, wall)
            THEN ExcludeWarn(acc, node_name, "spike_detected",
                             [spike1 EXCEPT ![key] = current_time])
        ELSE [acc EXCEPT
                !.valid_readings = Append(@, [pm2_5 |-> pm25_val, pm10 |-> pm10_val,
                                             timestamp |-> reading_ts,
                                             node_name |-> node_name]),
                !.node_statuses = Append(@, NodeStatus(node_name, "active")),
                !.spike = spike1,
                !.rows = save_reading(@, key, Rat(pm25_val, 1), Rat(pm10_val, 1),
                                      reading_ts)]

\* One iteration of the loop over the nodes (lines 270-357).
NodeStep(acc, zone_id, node_name, resp, current_time, wall) ==
    LET key == NodeKey(zone_id, node_name)
        spike1 == PurgeExpired(acc.spike, key, current_time)
        pm25 == PyOr(resp.pm02_corrected, resp.pm02)
        pm10 == PyOr(resp.pm10_corrected, resp.pm10)
        parsed == parse_timestamp(resp.timestamp)
        reading_ts == IF parsed = None THEN current_time ELSE parsed
        pm25_val == pm25
        pm10_val == IF Truthy(pm10) THEN pm10 ELSE 0
    IN  IF InGrace(acc.spike, key, current_time)
            THEN ExcludeWarn(acc, node_name, "grace_period", acc.spike)
        ELSE IF resp.kind = "exception"
            THEN Exclude(acc, node_name, "error", spike1)
        ELSE IF resp.kind # "200"
            THEN Exclude(acc, node_name, "offline", spike1)
        ELSE IF pm25 = None
            THEN Exclude(acc, node_name, "no_data", spike1)
        ELSE IF IsStale(parsed, current_time)
            THEN Exclude(acc, node_name, "stale", spike1)
        ELSE IF AbsoluteSpike(pm25_val, pm10_val)
            THEN ExcludeWarn(acc, node_name, "spike_detected",
                             [spike1 EXCEPT ![key] = current_time])
        ELSE IF JumpSpike(acc.rows, key, pm25_val, reading_ts, wall)
            THEN ExcludeWarn(acc, node_name, "spike_detected",
                             [spike1 EXCEPT ![key] = current_time])
        ELSE [acc EXCEPT
                !.valid_readings = Append(@, [pm2_5 |-> pm25_val, pm10 |-> pm10_val,
                                             timestamp |-> reading_ts,
                                             node_name |-> node_name]),
                !.node_statuses = Append(@, NodeStatus(node_name, "active")),
                !.spike = spike1,
                !.rows = save_reading(@, key, Rat(pm25_val, 1), Rat(pm10_val, 1),
                                      reading_ts)]

RECURSIVE NodeLoop(_, _, _, _, _, _, _)
NodeLoop(acc, i, zone_id, nodes, resps, current_time, wall) ==
    IF i > Len(nodes) THEN acc
    ELSE NodeLoop(NodeStep(acc, zone_id, nodes[i], resps[i], current_time, wall),
                  i + 1, zone_id, nodes, resps, current_time, wall)

\* MergedComps with the sums divided by the number of configured nodes.
MergedCompsOverAllNodes(acc, nodes) ==
    [pm2_5 |-> Rat(SumOf(acc.valid_readings, "pm2_5"), Len(nodes)),
     pm10 |-> Rat(SumOf(acc.valid_readings, "pm10"), Len(nodes)),
     ag_timestamp |-> MaxTs(acc.valid_readings),
     node_count |-> Len(acc.valid_readings),
     total_nodes |-> Len(nodes),
     node_statuses |-> acc.node_statuses,
     spike_warning |-> acc.spike_warnings # << >>,
     reading_ts |-> {acc.valid_readings[i].timestamp : i \in 1..Len(acc.valid_readings)}]

\* The merged reading (lines 362-378): the means as exact rationals.
MergedComps(acc, nodes) ==
    [pm2_5 |-> Rat(SumOf(acc.valid_readings, "pm2_5"), Len(acc.valid_readings)),
     pm10 |-> Rat(SumOf(acc.valid_readings, "pm10"), Len(acc.valid_readings)),
     ag_timestamp |-> MaxTs(acc.valid_readings),
     node_count |-> Len(acc.valid_readings),
     total_nodes |-> Len(nodes),
     node_statuses |-> acc.node_statuses,
     spike_warning |-> acc.spike_warnings # << >>,
     reading_ts |-> {acc.valid_readings[i].timestamp : i \in 1..Len(acc.valid_readings)}]

\* fetch_multi_node_airgradient raising as soon as one node is excluded.
fetch_multi_node_all_or_nothing(zone_id, nodes, token, resps, current_time, wall, spike, rows) ==
    IF ~token
    THEN [raised |-> TRUE, current_comps |-> NoData, node_statuses |-> << >>,
          spike |-> spike, rows |-> rows]
    ELSE LET acc == NodeLoop([valid_readings |-> << >>, node_statuses |-> << >>,
                              spike_warnings |-> << >>, spike |-> spike, rows |-> rows],
                             1, zone_id, nodes, resps, current_time, wall)
         IN  IF Len(acc.valid_readings) < Len(nodes)
             THEN [raised |-> TRUE, current_comps |-> NoData,
                   node_statuses |-> acc.node_statuses,
                   spike |-> acc.spike, rows |-> acc.rows]
             ELSE LET comps == MergedComps(acc, nodes)
                  IN  [raised |-> FALSE, current_comps |-> comps,
                       node_statuses |-> acc.node_statuses,
                       spike |-> acc.spike,
                       rows |-> save_reading(acc.rows, zone_id, comps.pm2_5,
                                             comps.pm10, wall)]

\* fetch_multi_node_airgradient: the outcome of one call that started at
\* current_time and whose responses are processed at wall.  raised: the call
\* raises; spike, rows: the two stores after the call.
fetch_multi_node_airgradient(zone_id, nodes, token, resps, current_time, wall, spike, rows) ==
    IF ~token
    THEN [raised |-> TRUE, current_comps |-> NoData, node_statuses |-> << >>,
          spike |-> spike, rows |-> rows]
    ELSE LET acc == NodeLoop([valid_readings |-> << >>, node_statuses |-> << >>,
                              spike_warnings |-> << >>, spike |-> spike, rows |-> rows],
                             1, zone_id, nodes, resps, current_time, wall)
         IN  IF acc.valid_readings = << >>
             THEN [raised |-> TRUE, current_comps |-> NoData,
                   node_statuses |-> acc.node_statuses,
                   spike |-> acc.spike, rows |-> acc.rows]
             ELSE LET comps == MergedComps(acc, nodes)
                  IN  [raised |-> FALSE, current_comps |-> comps,
                       node_statuses |-> acc.node_statuses,
                       spike |-> acc.spike,
                       rows |-> save_reading(acc.rows, zone_id, comps.pm2_5,
                                             comps.pm10, wall)]

--------------------------------------------------------------------------
\* fetch_airgradient_common (single-node zones), after ensure_history_exists.
\* ag is the sensor response, om the kind of the estimated-gas response
\* ("exception", "non200" or "200"); asyncio.gather re-raises the first
\* exception of either request.  The gas concentrations and the merged
\* history do not enter this model of the call.
fetch_airgradient_common(zone_id, token, ag, om, wall, rows) ==
    IF ~token \/ ag.kind = "exception" \/ om = "exception"
    THEN [raised |-> TRUE, current_comps |-> NoData, rows |-> rows]
    ELSE IF ag.kind = "200"
    THEN LET pm25 == PyOr(ag.pm02_corrected, ag.pm02)
             pm10 == PyOr(ag.pm10_corrected, ag.pm10)
             parsed == parse_timestamp(ag.timestamp)
         IN  [raised |-> FALSE,
              current_comps |-> Comps(Conc(pm25), Conc(pm10), parsed,
                                      IF parsed = None THEN {} ELSE {parsed}),
              rows |-> IF pm25 # None
                       THEN save_reading(rows, zone_id, Rat(pm25, 1),
                                         Rat(IF Truthy(pm10) THEN pm10 ELSE 0, 1), wall)
                       ELSE rows]
    ELSE [raised |-> FALSE, current_comps |-> Comps(Absent, Absent, None, {}),
          rows |-> rows]

\* ensure_history_exists: the rows a backfill saves (history: the list
\* fetch_airgradient_history returns, entries [ts, pm2_5, pm10]).
RECURSIVE save_history(_, _, _)
save_history(rows, zone_id, history) ==
    IF history = << >> THEN rows
    ELSE save_history(save_reading(rows, zone_id, Rat(Head(history).pm2_5, 1),
                                   Rat(Head(history).pm10, 1), Head(history).ts),
                      zone_id, Tail(history))

\* fetch_openmeteo_live.  sat.kind: "exception", "non200", "empty" (no hourly
\* times), "short" (a pollutant series is missing or shorter than the times:
\* IndexError) or "200"; None values are filtered out of current_comps.
SatResp(kind, pm25, pm10) == [kind |-> kind, pm2_5 |-> pm25, pm10 |-> pm10]

fetch_openmeteo_live(sat) ==
    IF sat.kind # "200"
    THEN [raised |-> TRUE, current_comps |-> NoData]
    ELSE [raised |-> FALSE,
          current_comps |-> Comps(IF sat.pm2_5 = None THEN Absent ELSE Rat(sat.pm2_5, 1),
                                  IF sat.pm10 = None THEN Absent ELSE Rat(sat.pm10, 1),
                                  None, {})]

--------------------------------------------------------------------------
\* app/core/conversions.py, calculate_overall_aqi: round(indian_unit_val, 2)
\* raises TypeError when a recognised key holds None (lines 138-147).
calculate_overall_aqi(pollutants_ugm3) ==
    [raised |-> pollutants_ugm3.pm2_5 = PyNone \/ pollutants_ugm3.pm10 = PyNone]

--------------------------------------------------------------------------
\* get_zone_data: the pieces of one orchestrator run.

SATELLITE_SOURCE == "openmeteo air pollution api"
SINGLE_SOURCE == "airgradient + openmeteo"
MultiSource(comps) ==
    "airgradient (" \o ToString(comps.node_count) \o "/"
        \o ToString(comps.total_nodes) \o " sensors) + openmeteo"

WARNING_TEXT == "unnatural spike"
SENSOR_OFFLINE == "sensor offline"
SPIKE_WARNING == "spike warning"

NoSnapshot == [nosnapshot |-> TRUE]

\* SensorCheckFails without the age check of lines 561-565.
SensorCheckNoAge(comps, current_time) ==
    comps.pm2_5 = PyNone \/ comps.pm2_5 = Absent

\* The checks after the sensor fetch (lines 556-565): raise ValueError.
SensorCheckFails(comps, current_time) ==
    \/ comps.pm2_5 = PyNone \/ comps.pm2_5 = Absent
    \/ /\ Truthy(comps.ag_timestamp)
       /\ current_time - comps.ag_timestamp > STALE_LIMIT

\* raw_comps.get(key, 0)
GetOrZero(x) == IF x = Absent THEN Rat(0, 1) ELSE x

\* WarningMsg without the merge of lines 621-625.
WarningMsgUnmerged(raw_comps, sensor_offline_warning, jump) ==
    IF \/ RatGT(GetOrZero(raw_comps.pm2_5), ABS_PM25_LIMIT)
       \/ RatGT(GetOrZero(raw_comps.pm10), ABS_PM10_LIMIT)
       \/ jump
    THEN <<WARNING_TEXT>>
    ELSE << >>

\* WarningMsg with the sensor advisory replacing the spike advisory.
WarningMsgReplaced(raw_comps, sensor_offline_warning, jump) ==
    IF sensor_offline_warning # "" THEN <<sensor_offline_warning>>
    ELSE IF \/ RatGT(GetOrZero(raw_comps.pm2_5), ABS_PM25_LIMIT)
            \/ RatGT(GetOrZero(raw_comps.pm10), ABS_PM10_LIMIT)
            \/ jump
        THEN <<WARNING_TEXT>>
    ELSE << >>

\* Lines 582-625.  The warning is the list of its texts (<< >>: null).
\* jump: the history holds a point within 1800 s of current_time - 3600 whose
\* index is more than 150 below the current index.
WarningMsg(raw_comps, sensor_offline_warning, jump) ==
    LET absolute == \/ RatGT(GetOrZero(raw_comps.pm2_5), ABS_PM25_LIMIT)
                    \/ RatGT(GetOrZero(raw_comps.pm10), ABS_PM10_LIMIT)
        warning_msg == IF absolute \/ jump THEN <<WARNING_TEXT>> ELSE << >>
    IN  IF sensor_offline_warning # ""
        THEN <<sensor_offline_warning>> \o warning_msg
        ELSE warning_msg

full_payload(zone_id, source_name, current_time, warning_msg, raw_comps) ==
    [zone_id |-> zone_id, source |-> source_name, timestamp_unix |-> current_time,
     warning |-> warning_msg, concentrations_raw_ugm3 |-> raw_comps]

--------------------------------------------------------------------------
\* State.

VARIABLES
    now,          \* the wall clock (datetime.now().timestamp(), time.time())
    ticks,        \* how many times the clock has advanced
    tokens,       \* airgradient_token, jammu_airgradient_token: set or not
    RAM_CACHE,    \* _RAM_CACHE: zone_id -> payload, NoSnapshot when absent
    SPIKE_CACHE,  \* _SPIKE_CACHE: node key -> spike time, None when absent
    rows,         \* the table sensor_readings
    run,          \* the get_zone_data call of each task: its locals and position
    lastAgg,      \* the latest fetch_multi_node_airgradient call: inputs and outcome
    aggs,         \* how many direct aggregation calls have been made
    firstSaved,   \* (zone_id, timestamp) -> the values of the first committed save
    call,         \* a function exercised on its own: its arguments and its result
    bg            \* start_background_loop: its position and what the cycle has done

vars == <<now, ticks, tokens, RAM_CACHE, SPIKE_CACHE, rows, run, lastAgg, aggs,
          firstSaved, call, bg>>

\* The state of get_zone_data and of the aggregator.
core == <<now, ticks, tokens, RAM_CACHE, SPIKE_CACHE, rows, run, lastAgg, aggs>>

\* The tasks that call get_zone_data, each once (a request handler, or one
\* iteration of the background refresh); their calls may overlap.
Callers == {"task1", "task2"}

IdleRun ==
    [pc |-> "idle", zone_id |-> "", force_refresh |-> FALSE,
     current_time |-> 0, cached_data |-> NoSnapshot,
     sensor |-> "none", satellite |-> "none", compute |-> "none",
     outcome |-> "none", result |-> NoSnapshot]

NoAgg == [none |-> TRUE]

\* The pairs (zone_id, timestamp) written when the store is exercised on its
\* own, and the mark of a pair that no save has been committed for.
DbZones == {"srinagar", "srinagar_A"}
DbTimes == {T0 - 3600, T0 - 60, T0}
DbKeys == DbZones \X DbTimes
NoRow == [norow |-> TRUE]

\* No function is being exercised on its own.
NoCall == [fn |-> "none"]

\* The background loop has not been started.
IdleLoop == [pc |-> "idle"]

\* token selection of get_zone_data (lines 519-528).
TokenOf(zone_id) ==
    IF zone_id = "srinagar" THEN tokens.airgradient_token
    ELSE tokens.jammu_airgradient_token

Init ==
    /\ now = T0
    /\ ticks = 0
    /\ tokens \in {[airgradient_token |-> b, jammu_airgradient_token |-> b] : b \in BOOLEAN}
    /\ RAM_CACHE = [z \in ZONES |-> NoSnapshot]
    /\ SPIKE_CACHE = [k \in NodeKeys |-> None]
    /\ rows = {}
    /\ run = [c \in Callers |-> IdleRun]
    /\ lastAgg = NoAgg
    /\ aggs = 0
    /\ firstSaved = [k \in DbKeys |-> NoRow]
    /\ call = NoCall
    /\ bg = IdleLoop

--------------------------------------------------------------------------
\* Inputs: what the upstream services may answer to a call that started at t.

Reading(pm25, pm10, ts) == SensorResp("200", None, pm25, None, pm10, ts)

\* Answers of the two nodes of a multi-node zone.
NodeResps(t) ==
    {<<r1, r2>> : r1 \in {RespException, Reading(30, 80, t), Reading(700, 80, t)},
                  r2 \in {Reading(30, 80, t), Reading(30, 80, t - 3601)}}

\* Answers of the node of a single-node zone.
SingleResps(t) ==
    {RespException, RespNon200,
     Reading(30, 80, t), Reading(30, 80, t - 3600), Reading(30, 80, t - 3601),
     Reading(30, None, t), Reading(None, 80, t), Reading(700, 80, t)}

OmKinds == {"exception", "non200", "200"}

SatResps ==
    {SatResp("exception", None, None), SatResp("non200", None, None),
     SatResp("empty", None, None), SatResp("short", None, None),
     SatResp("200", 40, 90), SatResp("200", 700, 90), SatResp("200", None, 90)}

Backfills(t) == {<< >>, <<[ts |-> t - 1800, pm2_5 |-> 30, pm10 |-> 80]>>}

--------------------------------------------------------------------------
\* get_zone_data.

\* CacheHit with the boundary included: an entry exactly CACHE_DURATION old
\* still counts as fresh.
CacheHitInclusive(cached_data, force_refresh, current_time) ==
    /\ cached_data # NoSnapshot
    /\ ~force_refresh
    /\ current_time - cached_data.timestamp_unix <= CACHE_DURATION

\* CacheHit with the force flag inverted.
CacheHitForced(cached_data, force_refresh, current_time) ==
    /\ cached_data # NoSnapshot
    /\ force_refresh
    /\ current_time - cached_data.timestamp_unix < CACHE_DURATION

\* Lines 511-514.
CacheHit(cached_data, force_refresh, current_time) ==
    /\ cached_data # NoSnapshot
    /\ ~force_refresh
    /\ current_time - cached_data.timestamp_unix < CACHE_DURATION

\* Failed without the stale-serve: the error is always re-raised.
FailedAlwaysRaises(r) ==
    [r EXCEPT !.pc = "done", !.outcome = "error", !.result = NoSnapshot]

\* Lines 645-649: except Exception: stale-serve or re-raise.
Failed(r) ==
    IF r.cached_data # NoSnapshot
    THEN [r EXCEPT !.pc = "done", !.outcome = "stale", !.result = r.cached_data]
    ELSE [r EXCEPT !.pc = "done", !.outcome = "error", !.result = NoSnapshot]

\* Lines 576-643: COMPUTE, then the cache write and the return.
Compute(r, raw_comps, source_name, sensor_offline_warning, jump) ==
    IF calculate_overall_aqi(raw_comps).raised
    THEN Failed([r EXCEPT !.compute = "raised"])
    ELSE [r EXCEPT !.pc = "done", !.compute = "ok", !.outcome = "fresh",
                   !.result = full_payload(r.zone_id, source_name, r.current_time,
                                           WarningMsg(raw_comps, sensor_offline_warning, jump),
                                           raw_comps)]

\* Store with the write made by every run that ended, whatever its outcome.
StoreAnyOutcome(cache, r) ==
    IF r.pc = "done" /\ r.outcome # "hit" THEN [cache EXCEPT ![r.zone_id] = r.result] ELSE cache

\* Store with the entry served stale stamped again with the time of the run.
StoreRestamps(cache, r) ==
    IF r.outcome = "fresh" THEN [cache EXCEPT ![r.zone_id] = r.result]
    ELSE IF r.outcome = "stale"
        THEN [cache EXCEPT ![r.zone_id] =
                    [r.cached_data EXCEPT !.timestamp_unix = r.current_time]]
    ELSE cache

\* _RAM_CACHE[zone_id] = full_payload (line 642), reached only by a run that
\* did not raise.
Store(cache, r) ==
    IF r.outcome = "fresh" THEN [cache EXCEPT ![r.zone_id] = r.result] ELSE cache

\* ToSatellite with the sensor tier attempted again instead of the fallback.
ToSatelliteRetriesSensor(r) == [r EXCEPT !.pc = "backfill", !.sensor = "pending"]

\* The except branch of the sensor tier (lines 567-571): the satellite fetch begins.
ToSatellite(r) == [r EXCEPT !.pc = "satellite", !.sensor = "failed", !.satellite = "pending"]

\* SensorTier with the satellite fetch made whatever the sensor tier gave.
SensorTierAlwaysSatellite(r, comps, source_name, sensor_offline_warning, jump) ==
    [r EXCEPT !.pc = "satellite",
              !.sensor = IF SensorCheckFails(comps, r.current_time) THEN "failed" ELSE "ok",
              !.satellite = "pending"]

\* Lines 556-571 and on: the sensor fetch returned fetched_data; either a
\* check raises and the except branch starts the satellite tier, or the run
\* goes on to COMPUTE with the sensor data.
SensorTier(r, comps, source_name, sensor_offline_warning, jump) ==
    IF SensorCheckFails(comps, r.current_time)
    THEN ToSatellite(r)
    ELSE Compute([r EXCEPT !.sensor = "ok"], comps, source_name,
                 sensor_offline_warning, jump)

\* A task enters get_zone_data: the cache lookup, and on a miss the start of
\* the first tier, up to its first await.
Call(c, zone_id, force_refresh) ==
    /\ run[c].pc = "idle"
    /\ LET r == [IdleRun EXCEPT !.zone_id = zone_id,
                                !.force_refresh = force_refresh,
                                !.current_time = now,
                                !.cached_data = RAM_CACHE[zone_id]]
           nodes == NodesOf(zone_id)
       IN  run' = [run EXCEPT ![c] =
                IF CacheHit(r.cached_data, force_refresh, now)
                    THEN [r EXCEPT !.pc = "done", !.outcome = "hit",
                                   !.result = r.cached_data]
                ELSE IF nodes = << >>
                    THEN [r EXCEPT !.pc = "satellite", !.satellite = "pending"]
                ELSE IF ~TokenOf(zone_id)
                    THEN ToSatellite(r)
                ELSE IF Len(nodes) = 1
                        /\ get_history(rows, zone_id, BACKFILL_CHECK_HOURS, now) = {}
                    THEN [r EXCEPT !.pc = "backfill", !.sensor = "pending"]
                ELSE [r EXCEPT !.pc = "sensor", !.sensor = "pending"]]
    /\ UNCHANGED <<now, ticks, tokens, RAM_CACHE, SPIKE_CACHE, rows, lastAgg, aggs, firstSaved, call, bg>>

\* ensure_history_exists: the past-readings request answers.
BackfillDone(c, history) ==
    /\ run[c].pc = "backfill"
    /\ rows' = save_history(rows, run[c].zone_id, history)
    /\ run' = [run EXCEPT ![c].pc = "sensor"]
    /\ UNCHANGED <<now, ticks, tokens, RAM_CACHE, SPIKE_CACHE, lastAgg, aggs, firstSaved, call, bg>>

AggRecord(zone_id, nodes, resps, current_time, wall, spike, res) ==
    [zone_id |-> zone_id, nodes |-> nodes, resps |-> resps,
     current_time |-> current_time, wall |-> wall, spike_before |-> spike,
     raised |-> res.raised, node_statuses |-> res.node_statuses,
     current_comps |-> res.current_comps]

\* The requests of a multi-node sensor tier have all answered.
SensorDoneMulti(c, resps, jump) ==
    /\ run[c].pc = "sensor"
    /\ Len(NodesOf(run[c].zone_id)) > 1
    /\ LET r == run[c]
           nodes == NodesOf(r.zone_id)
           res == fetch_multi_node_airgradient(r.zone_id, nodes, TokenOf(r.zone_id),
                      resps, r.current_time, now, SPIKE_CACHE, rows)
           comps == res.current_comps
           r2 == IF res.raised THEN ToSatellite(r)
                 ELSE SensorTier(r, comps, MultiSource(comps),
                                 IF comps.spike_warning THEN SPIKE_WARNING ELSE "", jump)
       IN  /\ SPIKE_CACHE' = res.spike
           /\ rows' = res.rows
           /\ lastAgg' = AggRecord(r.zone_id, nodes, resps, r.current_time, now,
                                   SPIKE_CACHE, res)
           /\ run' = [run EXCEPT ![c] = r2]
           /\ RAM_CACHE' = Store(RAM_CACHE, r2)
    /\ UNCHANGED <<now, ticks, tokens, aggs, firstSaved, call, bg>>

\* The two requests of a single-node sensor tier have answered.
SensorDoneSingle(c, ag, om, jump) ==
    /\ run[c].pc = "sensor"
    /\ Len(NodesOf(run[c].zone_id)) = 1
    /\ LET r == run[c]
           res == fetch_airgradient_common(r.zone_id, TokenOf(r.zone_id), ag, om, now, rows)
           comps == res.current_comps
           r2 == IF res.raised THEN ToSatellite(r)
                 ELSE SensorTier(r, comps, SINGLE_SOURCE, "", jump)
       IN  /\ rows' = res.rows
           /\ run' = [run EXCEPT ![c] = r2]
           /\ RAM_CACHE' = Store(RAM_CACHE, r2)
    /\ UNCHANGED <<now, ticks, tokens, SPIKE_CACHE, lastAgg, aggs, firstSaved, call, bg>>

\* The satellite request has answered.
SatelliteDone(c, sat, jump) ==
    /\ run[c].pc = "satellite"
    /\ LET r == run[c]
           res == fetch_openmeteo_live(sat)
           r2 == IF res.raised THEN Failed([r EXCEPT !.satellite = "failed"])
                 ELSE Compute([r EXCEPT !.satellite = "ok"], res.current_comps,
                              SATELLITE_SOURCE,
                              IF NodesOf(r.zone_id) # << >> THEN SENSOR_OFFLINE ELSE "",
                              jump)
       IN  /\ run' = [run EXCEPT ![c] = r2]
           /\ RAM_CACHE' = Store(RAM_CACHE, r2)
    /\ UNCHANGED <<now, ticks, tokens, SPIKE_CACHE, rows, lastAgg, aggs, firstSaved, call, bg>>

\* The task of c is cancelled while it waits for an upstream answer:
\* CancelledError is raised at the await, it is no Exception, so neither the
\* except branch of the sensor tier nor the one of lines 645-649 handles it,
\* and the call is left without storing or returning anything.
Cancel(c) ==
    /\ run[c].pc \in {"backfill", "sensor", "satellite"}
    /\ run' = [run EXCEPT ![c] =
                [@ EXCEPT !.pc = "cancelled", !.outcome = "cancelled",
                          !.sensor = IF @ = "pending" THEN "cancelled" ELSE @,
                          !.satellite = IF @ = "pending" THEN "cancelled" ELSE @]]
    /\ UNCHANGED <<now, ticks, tokens, RAM_CACHE, SPIKE_CACHE, rows, lastAgg, aggs, firstSaved, call, bg>>

\* Time passes.
Tick ==
    /\ ticks < MaxTicks
    /\ now' = now + TickLen
    /\ ticks' = ticks + 1
    /\ UNCHANGED <<tokens, RAM_CACHE, SPIKE_CACHE, rows, run, lastAgg, aggs, firstSaved, call, bg>>

Next ==
    \/ \E c \in Callers, z \in ZONES, f \in BOOLEAN :
            /\ c = "task2" => run["task1"].pc # "idle"
            /\ Call(c, z, f)
    \/ \E c \in Callers : \E h \in Backfills(run[c].current_time) : BackfillDone(c, h)
    \/ \E c \in Callers : \E rs \in NodeResps(run[c].current_time), j \in BOOLEAN :
            SensorDoneMulti(c, rs, j)
    \/ \E c \in Callers : \E ag \in SingleResps(run[c].current_time), om \in OmKinds,
                             j \in BOOLEAN : SensorDoneSingle(c, ag, om, j)
    \/ \E c \in Callers, sat \in SatResps, j \in BOOLEAN : SatelliteDone(c, sat, j)
    \/ \E c \in Callers : Cancel(c)
    \/ Tick

Spec == Init /\ [][Next]_vars

\* Every upstream request carries a timeout (httpx.AsyncClient(timeout=20)
\* for the tiers, the default of httpx.AsyncClient() for the backfill), so a
\* call that waits for an answer eventually gets one: an answer, an error or
\* a timeout.
Answers(c) ==
    \/ \E h \in Backfills(run[c].current_time) : BackfillDone(c, h)
    \/ \E rs \in NodeResps(run[c].current_time), j \in BOOLEAN : SensorDoneMulti(c, rs, j)
    \/ \E ag \in SingleResps(run[c].current_time), om \in OmKinds, j \in BOOLEAN :
            SensorDoneSingle(c, ag, om, j)
    \/ \E sat \in SatResps, j \in BOOLEAN : SatelliteDone(c, sat, j)

FairSpec == Spec /\ \A c \in Callers : WF_vars(Answers(c))

--------------------------------------------------------------------------
\* The aggregator on its own: fetch_multi_node_airgradient called for a zone
\* of three nodes, one call at a time, with the clock advancing in between.

AggZone == "srinagar"

AggResps(t) ==
    {<<a, b, c>> :
        a \in {Reading(700, 80, t), Reading(30, 80, t), Reading(300, 80, t)},
        b \in {Reading(40, 90, t - 5000), Reading(40, 90, t), RespException},
        c \in {Reading(30, 80, t), RespNon200}}

Aggregate(resps) ==
    /\ aggs < MaxAggs
    /\ aggs' = aggs + 1
    /\ LET res == fetch_multi_node_airgradient(AggZone, TestNodes, tokens.airgradient_token,
                      resps, now, now, SPIKE_CACHE, rows)
       IN  /\ SPIKE_CACHE' = res.spike
           /\ rows' = res.rows
           /\ lastAgg' = AggRecord(AggZone, TestNodes, resps, now, now, SPIKE_CACHE, res)
    /\ UNCHANGED <<now, ticks, tokens, RAM_CACHE, run, firstSaved, call, bg>>

AggTick ==
    /\ ticks < MaxAggTicks
    /\ now' = now + AggTickLen
    /\ ticks' = ticks + 1
    /\ UNCHANGED <<tokens, RAM_CACHE, SPIKE_CACHE, rows, run, lastAgg, aggs, firstSaved, call, bg>>

NextAgg ==
    \/ \E resps \in AggResps(now) : Aggregate(resps)
    \/ AggTick

SpecAgg == Init /\ [][NextAgg]_vars

--------------------------------------------------------------------------
\* Vocabulary of the properties.

\* The step is task c entering get_zone_data.
Enters(c) == run[c].pc = "idle" /\ run'[c].pc # "idle"

\* The step is the return (or raise) of a call of c that ran the orchestrator.
Returns(c) == run[c].pc \in {"backfill", "sensor", "satellite"} /\ run'[c].pc = "done"

InFlight(r) == r.pc \in {"backfill", "sensor", "satellite"}

\* The orchestrator run of r ended in failure: the satellite tier failed or
\* COMPUTE raised.
RunFailed(r) == r.pc = "done" /\ r.outcome # "hit" /\ r.compute # "ok"

\* The orchestrator run of r succeeded.
RunSucceeded(r) == r.pc = "done" /\ r.compute = "ok"

--------------------------------------------------------------------------
\* C1: on a cache miss get_zone_data runs the orchestrator; when the run
\* succeeds the zone's cache entry becomes the new snapshot and that snapshot
\* is returned; when the run fails and the call found an entry for the zone,
\* that entry is returned (also under force_refresh) and the cache is left as
\* it is; when the run fails and the call found no entry, the error is raised.
C1_MissContract ==
    [][\A c \in Callers :
        /\ Enters(c) =>
              /\ run'[c].cached_data = RAM_CACHE[run'[c].zone_id]
              /\ run'[c].outcome # "hit" => InFlight(run'[c])
        /\ Returns(c) =>
              LET r == run'[c]
              IN  /\ RunSucceeded(r) =>
                        /\ r.outcome = "fresh"
                        /\ r.result # NoSnapshot
                        /\ r.result.zone_id = r.zone_id
                        /\ r.result.timestamp_unix = r.current_time
                        /\ RAM_CACHE'[r.zone_id] = r.result
                  /\ (RunFailed(r) /\ run[c].cached_data # NoSnapshot) =>
                        /\ r.outcome = "stale"
                        /\ r.result = run[c].cached_data
                        /\ RAM_CACHE' = RAM_CACHE
                  /\ (RunFailed(r) /\ run[c].cached_data = NoSnapshot) =>
                        /\ r.outcome = "error"
                        /\ r.result = NoSnapshot
                        /\ RAM_CACHE' = RAM_CACHE
                  /\ RunSucceeded(r) \/ RunFailed(r)
      ]_vars

\* A run under force_refresh failed and the entry the call had found was served.
C1_Witness ==
    \E c \in Callers :
        /\ run[c].force_refresh
        /\ RunFailed(run[c])
        /\ run[c].outcome = "stale"
        /\ run[c].result = run[c].cached_data
        /\ run[c].result # NoSnapshot

--------------------------------------------------------------------------
\* C2: get_zone_data returns the cached snapshot without any upstream fetch
\* exactly when an entry exists, force_refresh is false and the entry's
\* timestamp_unix is less than 900 s before now; otherwise (at exactly 900 s,
\* under force_refresh, with no entry) the orchestrator is run.
C2_HitIff ==
    [][\A c \in Callers :
        Enters(c) =>
            LET r == run'[c]
                e == RAM_CACHE[r.zone_id]
                served == /\ r.pc = "done"
                          /\ r.outcome = "hit"
                          /\ r.result = e
                          /\ r.sensor = "none" /\ r.satellite = "none"
                fresh == /\ e # NoSnapshot
                         /\ ~r.force_refresh
                         /\ now - e.timestamp_unix < 900
            IN  /\ served <=> fresh
                /\ ~fresh => /\ InFlight(r)
                             /\ r.sensor # "none" \/ r.satellite # "none"
                /\ UNCHANGED <<RAM_CACHE, SPIKE_CACHE, rows>>
      ]_vars

\* A call without force_refresh found an entry exactly 900 s old and ran the
\* orchestrator.
C2_Witness ==
    \E c \in Callers :
        /\ run[c].pc # "idle"
        /\ ~run[c].force_refresh
        /\ run[c].cached_data # NoSnapshot
        /\ run[c].current_time - run[c].cached_data.timestamp_unix = 900
        /\ run[c].outcome # "hit"

--------------------------------------------------------------------------
\* C3 (as stated): for any zone, two calls get_zone_data(zone, false) whose
\* clock readings are less than 900 s apart perform exactly one upstream
\* fetch in total: exactly one of the two runs the orchestrator.
C3_AsStated ==
    \A c, d \in Callers :
        (/\ c # d
         /\ run[c].pc = "done" /\ run[d].pc = "done"
         /\ run[c].zone_id = run[d].zone_id
         /\ ~run[c].force_refresh /\ ~run[d].force_refresh
         /\ Abs(run[c].current_time - run[d].current_time) < 900)
        => (run[c].outcome = "hit") # (run[d].outcome = "hit")

\* C3 (amended): when a call get_zone_data(zone, false) has run the
\* orchestrator, the run has succeeded and the call has returned, a second
\* call get_zone_data(zone, false) made less than 900 s after the first
\* call's clock reading, while the snapshot the first call stored is still
\* the zone's cache entry, is served that snapshot without any upstream
\* fetch: the two calls perform exactly one upstream fetch in total.
C3_OneFetch ==
    [][\A c, d \in Callers :
        (/\ c # d
         /\ Enters(d)
         /\ run[c].pc = "done" /\ run[c].outcome = "fresh"
         /\ run[c].zone_id = run'[d].zone_id
         /\ ~run[c].force_refresh /\ ~run'[d].force_refresh
         /\ now - run[c].current_time < 900
         /\ RAM_CACHE[run[c].zone_id] = run[c].result)
        => /\ run'[d].pc = "done"
           /\ run'[d].outcome = "hit"
           /\ run'[d].result = run[c].result
           /\ run'[d].sensor = "none" /\ run'[d].satellite = "none"
      ]_vars

\* The first call ran the orchestrator and stored its snapshot; the second,
\* made afterwards within the cache duration, was served from the cache.
C3_Witness ==
    \E c, d \in Callers :
        /\ c # d
        /\ run[c].pc = "done" /\ run[c].outcome = "fresh"
        /\ run[d].pc = "done" /\ run[d].outcome = "hit"
        /\ run[c].zone_id = run[d].zone_id
        /\ ~run[c].force_refresh /\ ~run[d].force_refresh
        /\ run[d].current_time - run[c].current_time < 900
        /\ run[d].result = run[c].result

--------------------------------------------------------------------------
\* C4: in a run for a sensor-backed zone whose sensor tier failed and whose
\* satellite fetch then succeeded, get_zone_data returns a snapshot (not an
\* error) whose source is the satellite-only label and whose warning is not
\* null (it carries the sensor-offline advisory).
C4_Fallback ==
    \A c \in Callers :
        (run[c].sensor = "failed" /\ run[c].satellite = "ok")
        => /\ run[c].pc = "done"
           /\ run[c].outcome = "fresh"
           /\ run[c].result # NoSnapshot
           /\ run[c].result.source = SATELLITE_SOURCE
           /\ run[c].result.warning # << >>
           /\ \E i \in 1..Len(run[c].result.warning) :
                  run[c].result.warning[i] = SENSOR_OFFLINE

\* Every node of the multi-node zone was excluded in the aggregation of this
\* run, and the run returned a satellite snapshot.
C4_Witness ==
    \E c \in Callers :
        /\ run[c].zone_id = "srinagar"
        /\ lastAgg # NoAgg
        /\ lastAgg.current_time = run[c].current_time
        /\ lastAgg.raised
        /\ Len(lastAgg.node_statuses) = 2
        /\ run[c].sensor = "failed" /\ run[c].satellite = "ok"
        /\ run[c].outcome = "fresh"
        /\ run[c].result.source = SATELLITE_SOURCE

--------------------------------------------------------------------------
\* C5 (as stated): whenever an orchestrator run ends in failure (the error
\* is raised to the caller or a stale snapshot is served), the satellite
\* tier was attempted in that run and failed.
C5_FailureOnlyAfterSatellite ==
    \A c \in Callers : RunFailed(run[c]) => run[c].satellite = "failed"

--------------------------------------------------------------------------
\* C6: the tiers of a run are strictly sequential: a satellite fetch has
\* begun only in a run for a zone without sensors or in a run whose sensor
\* tier has resolved in failure; while the sensor tier is pending, and in a
\* run whose sensor tier succeeded, there is no satellite fetch.
C6_Sequential ==
    \A c \in Callers :
        /\ run[c].satellite # "none" =>
              \/ NodesOf(run[c].zone_id) = << >> /\ run[c].sensor = "none"
              \/ run[c].sensor = "failed"
        /\ run[c].sensor \in {"pending", "ok"} => run[c].satellite = "none"
        /\ run[c].pc \in {"backfill", "sensor"} <=> run[c].sensor = "pending"
        /\ run[c].pc = "satellite" <=> run[c].satellite = "pending"

\* A run whose sensor tier succeeded returned without a satellite fetch.
C6_Witness ==
    \E c \in Callers :
        /\ run[c].pc = "done"
        /\ run[c].sensor = "ok"
        /\ run[c].satellite = "none"
        /\ run[c].outcome = "fresh"

--------------------------------------------------------------------------
\* C7: no snapshot with a sensor source label is built from a physical
\* reading whose source timestamp is more than 3600 s before the clock
\* reading of the run (the snapshot's timestamp_unix), in the single-node
\* and the multi-node path alike; a node whose reading is that old is never
\* given status active.
SensorSnapshots ==
    {s \in {RAM_CACHE[z] : z \in ZONES} \cup {run[c].result : c \in Callers} :
        s # NoSnapshot /\ s.source # SATELLITE_SOURCE}

C7_NoStaleSensorSnapshot ==
    /\ \A s \in SensorSnapshots :
          \A ts \in s.concentrations_raw_ugm3.reading_ts :
              s.timestamp_unix - ts <= 3600
    /\ lastAgg # NoAgg =>
          \A i \in 1..Len(lastAgg.node_statuses) :
              LET ts == parse_timestamp(lastAgg.resps[i].timestamp)
              IN  (lastAgg.node_statuses[i].status = "active" /\ ts # None)
                  => lastAgg.current_time - ts <= 3600

\* A sensor snapshot built from a reading exactly 3600 s old.
C7_Witness ==
    \E s \in SensorSnapshots :
        \E ts \in s.concentrations_raw_ugm3.reading_ts : s.timestamp_unix - ts = 3600

--------------------------------------------------------------------------
\* Vocabulary of the aggregation properties.

\* The status node i got in the aggregation call rec.
StatusOf(rec, i) == rec.node_statuses[i].status

\* The indices of the nodes given status active in the call rec.
ActiveNodes(rec) ==
    {i \in 1..Len(rec.node_statuses) : StatusOf(rec, i) = "active"}

\* The PM2.5 and PM10 the answer of a node carries, as the aggregator reads them.
NodePM25(resp) == PyOr(resp.pm02_corrected, resp.pm02)
NodePM10(resp) ==
    LET pm10 == PyOr(resp.pm10_corrected, resp.pm10)
    IN  IF Truthy(pm10) THEN pm10 ELSE 0

RECURSIVE SumPM25(_, _)
SumPM25(resps, S) ==
    IF S = {} THEN 0
    ELSE LET i == CHOOSE j \in S : TRUE
         IN  NodePM25(resps[i]) + SumPM25(resps, S \ {i})

RECURSIVE SumPM10(_, _)
SumPM10(resps, S) ==
    IF S = {} THEN 0
    ELSE LET i == CHOOSE j \in S : TRUE
         IN  NodePM10(resps[i]) + SumPM10(resps, S \ {i})

\* The statuses the call would give with no spike record at all.
StatusesWithoutRecords(resps) ==
    fetch_multi_node_airgradient(AggZone, TestNodes, TRUE, resps, now, now,
                                 [k \in NodeKeys |-> None], rows).node_statuses

--------------------------------------------------------------------------
\* C8: a node whose spike record holds time T is given status grace_period
\* in every aggregation at a time t with t - T < 3600, whatever its answer,
\* and its record is kept; in the first aggregation with t - T >= 3600 the
\* record is deleted and the node is evaluated as a node without a record
\* (active if its reading is valid, flagged anew at t only if it spikes
\* again); a record changes in no other step than an aggregation.
C8_SpikeGrace ==
    [][/\ aggs' = aggs => SPIKE_CACHE' = SPIKE_CACHE
       /\ (aggs' # aggs /\ tokens.airgradient_token) =>
            \A i \in 1..Len(TestNodes) :
                LET k == NodeKey(AggZone, TestNodes[i])
                    T == SPIKE_CACHE[k]
                    resp == lastAgg'.resps[i]
                    st == StatusOf(lastAgg', i)
                IN  /\ (T # None /\ now - T < 3600) =>
                          /\ st = "grace_period"
                          /\ SPIKE_CACHE'[k] = T
                    /\ (T # None /\ now - T >= 3600) =>
                          /\ st # "grace_period"
                          /\ st = StatusesWithoutRecords(lastAgg'.resps)[i].status
                          /\ SPIKE_CACHE'[k] = IF st = "spike_detected" THEN now ELSE None
                          /\ (/\ resp.kind = "200"
                              /\ NodePM25(resp) # None /\ NodePM25(resp) <= 200
                              /\ NodePM10(resp) <= 600
                              /\ resp.timestamp = now) => st = "active"
                    /\ T = None =>
                          SPIKE_CACHE'[k] = IF st = "spike_detected" THEN now ELSE None
      ]_vars

\* A node whose record had reached the age of 3600 s was aggregated: the
\* record is gone and the node is active again.
C8_Witness ==
    /\ lastAgg # NoAgg
    /\ \E i \in 1..Len(lastAgg.node_statuses) :
          LET k == NodeKey(lastAgg.zone_id, lastAgg.nodes[i])
          IN  /\ lastAgg.spike_before[k] # None
              /\ lastAgg.current_time - lastAgg.spike_before[k] >= 3600
              /\ StatusOf(lastAgg, i) = "active"
              /\ SPIKE_CACHE[k] = None

--------------------------------------------------------------------------
\* C9: the merged PM2.5 and PM10 of an aggregation are the arithmetic means
\* of the readings of exactly the nodes given status active in that call;
\* with A at PM2.5 = 700, B 5000 s old and C valid at PM2.5 = 30 (and no
\* spike record) the merged reading is C's, A is spike_detected and B stale.
C9_MeanOfActive ==
    (lastAgg # NoAgg /\ ~lastAgg.raised) =>
        LET comps == lastAgg.current_comps
            A == ActiveNodes(lastAgg)
        IN  /\ A # {}
            /\ comps.node_count = Cardinality(A)
            /\ comps.pm2_5.den > 0 /\ comps.pm10.den > 0
            /\ comps.pm2_5.num * Cardinality(A) = SumPM25(lastAgg.resps, A) * comps.pm2_5.den
            /\ comps.pm10.num * Cardinality(A) = SumPM10(lastAgg.resps, A) * comps.pm10.den
            /\ (/\ Len(lastAgg.nodes) = 3
                /\ \A k \in NodeKeys : lastAgg.spike_before[k] = None
                /\ NodePM25(lastAgg.resps[1]) = 700
                /\ lastAgg.resps[2].timestamp = lastAgg.current_time - 5000
                /\ lastAgg.resps[3] = Reading(30, 80, lastAgg.current_time))
               => /\ StatusOf(lastAgg, 1) = "spike_detected"
                  /\ StatusOf(lastAgg, 2) = "stale"
                  /\ StatusOf(lastAgg, 3) = "active"
                  /\ comps.pm2_5.num = 30 * comps.pm2_5.den
                  /\ comps.pm10.num = 80 * comps.pm10.den

\* The aggregation of the example: A spiking at 700, B stale by 5000 s, C
\* valid at 30, and a merged reading that is C's.
C9_Witness ==
    /\ lastAgg # NoAgg
    /\ ~lastAgg.raised
    /\ Len(lastAgg.nodes) = 3
    /\ NodePM25(lastAgg.resps[1]) = 700
    /\ lastAgg.resps[2].timestamp = lastAgg.current_time - 5000
    /\ NodePM25(lastAgg.resps[3]) = 30
    /\ StatusOf(lastAgg, 1) = "spike_detected"
    /\ StatusOf(lastAgg, 2) = "stale"
    /\ ActiveNodes(lastAgg) = {3}
    /\ lastAgg.current_comps.pm2_5 = Rat(30, 1)

--------------------------------------------------------------------------
\* C10: fetch_multi_node_airgradient raises if and only if no node got
\* status active in the call; when it raises, the run goes on to the
\* satellite tier as after any sensor-tier failure and no row is saved under
\* the zone's id; when it returns, the merged reading is saved under it.
C10_RaisesIffNoneActive ==
    [][\A c \in Callers :
        (/\ run[c].pc = "sensor"
         /\ Len(NodesOf(run[c].zone_id)) > 1
         /\ run'[c].pc \notin {"sensor", "cancelled"})
        => LET z == run[c].zone_id
           IN  /\ lastAgg' # NoAgg
               /\ lastAgg'.zone_id = z
               /\ Len(lastAgg'.node_statuses) = Len(NodesOf(z))
               /\ lastAgg'.raised <=> ActiveNodes(lastAgg') = {}
               /\ lastAgg'.raised =>
                     /\ run'[c].pc = "satellite"
                     /\ run'[c].sensor = "failed"
                     /\ run'[c].satellite = "pending"
                     /\ {w \in rows' : w.zone_id = z} = {w \in rows : w.zone_id = z}
               /\ ~lastAgg'.raised =>
                     \E w \in rows' : w.zone_id = z /\ w.timestamp = now
      ]_vars

\* An aggregation in which no node was active raised, nothing was saved
\* under the zone's id, and the run is at the satellite tier.
C10_Witness ==
    \E c \in Callers :
        /\ run[c].zone_id = "srinagar"
        /\ run[c].pc = "satellite"
        /\ lastAgg # NoAgg
        /\ lastAgg.current_time = run[c].current_time
        /\ lastAgg.raised
        /\ Len(lastAgg.node_statuses) = 2
        /\ ActiveNodes(lastAgg) = {}
        /\ ~\E w \in rows : w.zone_id = "srinagar"

--------------------------------------------------------------------------
\* The store on its own: save_reading called again and again, with and
\* without a timestamp, for a few (zone_id, timestamp) pairs.

DbValues == {[pm2_5 |-> Rat(30, 1), pm10 |-> Rat(80, 1)],
             [pm2_5 |-> Rat(40, 1), pm10 |-> Rat(90, 1)]}

\* One call save_reading(zone_id, pm25, pm10, timestamp); timestamp None is
\* the default (time.time()); ~ok: the statement raises and the except branch
\* prints the error.  firstSaved keeps the values of the first committed save
\* of the pair and whether a later save brought other values.
Save(zone_id, v, timestamp, ok) ==
    LET ts == IF timestamp = None THEN now ELSE timestamp
        k == <<zone_id, ts>>
    IN  /\ rows' = IF ok THEN save_reading(rows, zone_id, v.pm2_5, v.pm10, ts) ELSE rows
        /\ firstSaved' =
              IF ~ok THEN firstSaved
              ELSE IF firstSaved[k] = NoRow
                  THEN [firstSaved EXCEPT ![k] = [pm2_5 |-> v.pm2_5, pm10 |-> v.pm10,
                                                  again |-> FALSE]]
              ELSE IF v.pm2_5 # firstSaved[k].pm2_5 \/ v.pm10 # firstSaved[k].pm10
                  THEN [firstSaved EXCEPT ![k].again = TRUE]
              ELSE firstSaved
        /\ UNCHANGED <<now, ticks, tokens, RAM_CACHE, SPIKE_CACHE, run, lastAgg, aggs,
                       call, bg>>

NextDb ==
    \E z \in DbZones, v \in DbValues, t \in (DbTimes \ {T0}) \cup {None}, ok \in BOOLEAN :
        Save(z, v, t, ok)

SpecDb == Init /\ [][NextDb]_vars

--------------------------------------------------------------------------
\* C11: after any sequence of save_reading calls the store holds exactly one
\* row for each (zone_id, timestamp) pair a save was committed for and none
\* for any other pair, and that row holds the pm2_5 and pm10 of the first
\* save of the pair: a later save of the pair changes nothing.
C11_FirstSaveWins ==
    \A k \in DbKeys :
        LET held == {r \in rows : r.zone_id = k[1] /\ r.timestamp = k[2]}
        IN  IF firstSaved[k] = NoRow
            THEN held = {}
            ELSE /\ Cardinality(held) = 1
                 /\ held = {Row(k[1], k[2], firstSaved[k].pm2_5, firstSaved[k].pm10)}

\* A pair was saved a second time with other values and its row still
\* holds the first ones.
C11_Witness ==
    \E k \in DbKeys :
        /\ firstSaved[k] # NoRow
        /\ firstSaved[k].again
        /\ \E r \in rows : /\ r.zone_id = k[1] /\ r.timestamp = k[2]
                           /\ r.pm2_5 = firstSaved[k].pm2_5
                           /\ r.pm10 = firstSaved[k].pm10

--------------------------------------------------------------------------
\* _get_merged_history (fetchers.py, lines 66-121).

\* datetime.fromtimestamp(ts).replace(minute=0, second=0, microsecond=0)
\* .timestamp(): the top of the local hour of ts, for a server whose local
\* time is tz seconds past a whole hour of UTC.
HourTop(ts, tz) == ts - ((ts + tz) % 3600)

\* min of a non-empty set of numbers; the numbers of a set in ascending order.
MinOf(S) == CHOOSE x \in S : \A y \in S : x <= y

RECURSIVE Ascending(_)
Ascending(S) ==
    IF S = {} THEN << >> ELSE <<MinOf(S)>> \o Ascending(S \ {MinOf(S)})

\* KeepsEstimated with the hour of the boundary itself still estimated.
KeepsEstimatedThroughBoundary(ts, sensor_start_ts) ==
    ~(Truthy(sensor_start_ts) /\ ts > sensor_start_ts)

\* KeepsEstimated without the sensor start boundary.
KeepsEstimatedAlways(ts, sensor_start_ts) == TRUE

\* if sensor_start_ts and ts >= sensor_start_ts: continue (the point is kept
\* otherwise).
KeepsEstimated(ts, sensor_start_ts) ==
    ~(Truthy(sensor_start_ts) /\ ts >= sensor_start_ts)

\* InClip without the upper end of the window.
InClipFromStart(ts, clip_start_ts, now_ts) == ~(ts < clip_start_ts)

\* InClip with the window always starting 24 h before now.
InClipLastDay(ts, clip_start_ts, now_ts) == ~(ts < now_ts - 24 * 3600 \/ ts > now_ts)

\* if ts < clip_start_ts or ts > now_ts: continue (the bucket is kept otherwise).
InClip(ts, clip_start_ts, now_ts) == ~(ts < clip_start_ts \/ ts > now_ts)

\* history_buckets[ts][param] after the loop over the estimated points: the
\* value of the last point of the list with that ts and param.
RECURSIVE LastVal(_, _, _)
LastVal(points, ts, param) ==
    IF points = << >> THEN Absent
    ELSE LET pt == points[Len(points)]
         IN  IF pt.ts = ts /\ pt.param = param THEN Rat(pt.val, 1)
             ELSE LastVal(SubSeq(points, 1, Len(points) - 1), ts, param)

\* history_buckets[ts] after both loops: the estimated gases kept for ts and
\* the pm2_5 / pm10 of the latest persisted reading of that hour.
Bucket(ts, kept, local_data, tz) ==
    LET inHour == {r \in local_data : HourTop(r.timestamp, tz) = ts}
        latest == CHOOSE r \in inHour : \A q \in inHour : q.timestamp <= r.timestamp
    IN  [pm2_5 |-> IF inHour = {} THEN Absent ELSE latest.pm2_5,
         pm10 |-> IF inHour = {} THEN Absent ELSE latest.pm10,
         no2 |-> LastVal(kept, ts, "no2"),
         so2 |-> LastVal(kept, ts, "so2")]

\* The merged history.  A HistoryPoint is modelled by its ts and the
\* concentrations of its hour, from which aqi and us_aqi are computed; an hour
\* whose index computation raises is skipped.
get_merged_history(zone_id, om_points, table, now_ts, tz) ==
    LET local_data == get_history(table, zone_id, 24, now_ts)
        sensor_start_ts ==
            IF local_data = {} THEN None
            ELSE HourTop(MinOf({r.timestamp : r \in local_data}), tz)
        kept == SelectSeq(om_points, LAMBDA pt : KeepsEstimated(pt.ts, sensor_start_ts))
        keys == {kept[i].ts : i \in 1..Len(kept)}
                    \cup {HourTop(r.timestamp, tz) : r \in local_data}
        clip_start_ts == IF Truthy(sensor_start_ts) THEN sensor_start_ts
                         ELSE now_ts - 24 * 3600
        retained == {ts \in keys :
                        /\ InClip(ts, clip_start_ts, now_ts)
                        /\ ~calculate_overall_aqi(Bucket(ts, kept, local_data, tz)).raised}
        sorted_times == Ascending(retained)
    IN  [i \in 1..Len(sorted_times) |->
            [ts |-> sorted_times[i],
             comps |-> Bucket(sorted_times[i], kept, local_data, tz)]]

--------------------------------------------------------------------------
\* Functions exercised on their own: the initial state holds the arguments
\* (call.applied is FALSE) and one step applies the function and sets call.out.

\* Everything but the store and the call under study is at rest.
Quiet ==
    /\ now = T0
    /\ ticks = 0
    /\ tokens = [airgradient_token |-> TRUE, jammu_airgradient_token |-> TRUE]
    /\ RAM_CACHE = [z \in ZONES |-> NoSnapshot]
    /\ SPIKE_CACHE = [k \in NodeKeys |-> None]
    /\ run = [c \in Callers |-> IdleRun]
    /\ lastAgg = NoAgg
    /\ aggs = 0
    /\ firstSaved = [k \in DbKeys |-> NoRow]
    /\ bg = IdleLoop

\* Top of the hour k hours before the current UTC hour.
HourBefore(k) == HourTop(T0, 0) - k * 3600

\* Persisted readings of the zone: one older than 24 h, one a few hours old,
\* one of the previous hour and two of the last minute; the hour between the
\* second and the third holds no reading.
MergeReadings ==
    {Row("rajouri_town", T0 - 86400 - 50, Rat(20, 1), Rat(50, 1)),
     Row("rajouri_town", HourBefore(3) + 500, Rat(30, 1), Rat(80, 1)),
     Row("rajouri_town", HourBefore(1) + 2700, Rat(40, 1), Rat(90, 1)),
     Row("rajouri_town", T0 - 60, Rat(35, 1), Rat(85, 1)),
     Row("rajouri_town", T0 - 30, Rat(36, 1), Rat(86, 1))}

\* Hours of the estimated series: before the 24 h window, inside it (one of
\* them the hour without a reading), the current hour and a future hour.
MergeOmTimes ==
    {HourBefore(25), HourBefore(5), HourBefore(2), HourBefore(1), HourBefore(0),
     HourBefore(0 - 1)}

OmPoints(times, params) ==
    LET ts == Ascending(times)
    IN  [i \in 1..Len(ts) |-> [ts |-> ts[i], param |-> "no2", val |-> 20]]
        \o (IF params = 2
            THEN [i \in 1..Len(ts) |-> [ts |-> ts[i], param |-> "so2", val |-> 10]]
            ELSE << >>)

InitMerge ==
    /\ Quiet
    /\ rows \in SUBSET MergeReadings
    /\ call \in {[fn |-> "get_merged_history", zone_id |-> "rajouri_town",
                  om_points |-> OmPoints(times, params), tz |-> tz,
                  applied |-> FALSE, out |-> << >>] :
                        times \in SUBSET MergeOmTimes, params \in {1, 2}, tz \in {0, 1800}}

Merge ==
    /\ call.fn = "get_merged_history"
    /\ ~call.applied
    /\ call' = [call EXCEPT !.applied = TRUE,
                            !.out = get_merged_history(call.zone_id, call.om_points,
                                                       rows, now, call.tz)]
    /\ UNCHANGED <<core, firstSaved, bg>>

SpecMerge == InitMerge /\ [][Merge]_vars

--------------------------------------------------------------------------
\* Vocabulary of the merged-history properties.

Merged == call.fn = "get_merged_history" /\ call.applied

\* The persisted readings of the zone of the last 24 h, and the clip window's
\* start: the top of the hour of the earliest of them, else now - 24 h.
RecentReadings ==
    {r \in rows : r.zone_id = call.zone_id /\ r.timestamp > now - 86400}

ClipStart ==
    IF RecentReadings = {} THEN now - 86400
    ELSE HourTop(MinOf({r.timestamp : r \in RecentReadings}), call.tz)

EstimatedHours == {call.om_points[i].ts : i \in 1..Len(call.om_points)}
SensorHours == {HourTop(r.timestamp, call.tz) : r \in RecentReadings}
EmittedHours == {call.out[i].ts : i \in 1..Len(call.out)}

--------------------------------------------------------------------------
\* C12: _get_merged_history never emits two points with the same timestamp
\* (the points are in strictly ascending order), and every emitted timestamp
\* lies in [clipStart, now], clipStart being the top of the hour of the
\* earliest persisted reading of the last 24 h, or now - 24 h without one.
C12_DistinctAndClipped ==
    Merged =>
        /\ \A i \in 1..Len(call.out) :
              ClipStart <= call.out[i].ts /\ call.out[i].ts <= now
        /\ \A i, j \in 1..Len(call.out) : i < j => call.out[i].ts < call.out[j].ts

\* Without persisted readings, an estimated series reaching from before the
\* window into the future was merged: the points outside are gone.
C12_Witness ==
    /\ Merged
    /\ RecentReadings = {}
    /\ \E h \in EstimatedHours : h < now - 86400
    /\ \E h \in EstimatedHours : h > now
    /\ Len(call.out) >= 2
    /\ Len(call.out) < Cardinality(EstimatedHours)

--------------------------------------------------------------------------
\* C13 (as stated): for every hour inside the clip window for which the
\* estimated series or the store holds data, exactly one point is emitted,
\* also for hours at or after the sensor start boundary without a reading.
C13_GapFilled ==
    Merged =>
        \A h \in EstimatedHours \cup SensorHours :
            (ClipStart <= h /\ h <= now)
            => Cardinality({i \in 1..Len(call.out) : call.out[i].ts = h}) = 1

\* C13 (amended): _get_merged_history emits exactly one point per retained
\* hour, and the retained hours are: the hours of the persisted readings of
\* the last 24 h when there is such a reading (estimated points at or after
\* the sensor start boundary are dropped, earlier ones are clipped), and the
\* hours of the estimated series within [now - 24 h, now] when there is none.
C13_SensorHoursOrEstimates ==
    Merged =>
        /\ EmittedHours =
              IF RecentReadings # {} THEN SensorHours
              ELSE {h \in EstimatedHours : now - 86400 <= h /\ h <= now}
        /\ Len(call.out) = Cardinality(EmittedHours)

\* Readings exist three hours and one hour back, the estimated series holds
\* the hour in between, and the merged history has no point for that hour.
C13_Witness ==
    /\ Merged
    /\ HourBefore(2) \in EstimatedHours
    /\ \E h \in SensorHours : h < HourBefore(2)
    /\ \E h \in SensorHours : h > HourBefore(2)
    /\ HourBefore(2) \notin SensorHours
    /\ HourBefore(2) \notin EmittedHours
    /\ Len(call.out) >= 2

--------------------------------------------------------------------------
\* get_zone_data, COMPUTE: the trends and the warning (lines 582-625).
\* A trend is << >> (None) or <<n>>.

\* get_past_aqi with the tolerance excluded.
get_past_aqi_strict(target_ts, history_list, tolerance) ==
    LET near == {i \in 1..Len(history_list) :
                    Abs(history_list[i].ts - target_ts) < tolerance}
    IN  IF near = {} THEN << >> ELSE <<history_list[MinOf(near)].aqi>>

\* get_past_aqi (lines 596-600): the index of the first point of the list
\* within the tolerance, << >> when there is none.
get_past_aqi(target_ts, history_list, tolerance) ==
    LET near == {i \in 1..Len(history_list) :
                    Abs(history_list[i].ts - target_ts) <= tolerance}
    IN  IF near = {} THEN << >> ELSE <<history_list[MinOf(near)].aqi>>

\* Lines 602-618: trend_1h and trend_24h.
Trends(current_aqi, history, current_time) ==
    LET val_1h == get_past_aqi(current_time - 3600, history, 1800)
        val_24h == get_past_aqi(current_time - 86400, history, 1800)
    IN  IF history = << >> THEN [change_1h |-> << >>, change_24h |-> << >>]
        ELSE [change_1h |-> IF val_1h = << >> THEN << >> ELSE <<current_aqi - val_1h[1]>>,
              change_24h |-> IF val_24h = << >> THEN << >> ELSE <<current_aqi - val_24h[1]>>]

\* (current_aqi - val_1h) > 150
TrendJump(trends) == trends.change_1h # << >> /\ trends.change_1h[1] > 150

\* History points around now - 3600 and around now - 86400, each with an
\* index of its own, in ascending order of ts.
TrendPoints ==
    {[ts |-> T0 - 86400 - 1801, aqi |-> 60], [ts |-> T0 - 86400 - 1000, aqi |-> 70],
     [ts |-> T0 - 86400 + 1800, aqi |-> 80], [ts |-> T0 - 86400 + 1801, aqi |-> 90],
     [ts |-> T0 - 3600 - 1801, aqi |-> 10], [ts |-> T0 - 3600 - 1800, aqi |-> 20],
     [ts |-> T0 - 3600, aqi |-> 30], [ts |-> T0 - 3600 + 1800, aqi |-> 50],
     [ts |-> T0 - 3600 + 1801, aqi |-> 40]}

HistoryOf(points) ==
    LET ts == Ascending({pt.ts : pt \in points})
    IN  [i \in 1..Len(ts) |-> CHOOSE pt \in points : pt.ts = ts[i]]

TrendComps ==
    {Comps(Rat(30, 1), Rat(80, 1), None, {}), Comps(Rat(650, 1), Rat(600, 1), None, {}),
     Comps(Rat(651, 1), Rat(80, 1), None, {}), Comps(Rat(30, 1), Rat(601, 1), None, {}),
     Comps(Absent, Rat(80, 1), None, {})}

InitCompute ==
    /\ Quiet
    /\ rows = {}
    /\ call \in {[fn |-> "compute", raw_comps |-> rc, current_aqi |-> a,
                  history |-> HistoryOf(pts), sensor_offline_warning |-> w,
                  applied |-> FALSE,
                  out |-> [change_1h |-> << >>, change_24h |-> << >>, warning |-> << >>]] :
                        rc \in TrendComps, a \in {100, 200, 201},
                        pts \in SUBSET TrendPoints,
                        w \in {"", SENSOR_OFFLINE, SPIKE_WARNING}}

\* Lines 582-640 for the arguments of the call, at current_time = now.
ComputeTrends ==
    /\ call.fn = "compute"
    /\ ~call.applied
    /\ LET trends == Trends(call.current_aqi, call.history, now)
       IN  call' = [call EXCEPT !.applied = TRUE,
                       !.out = [change_1h |-> trends.change_1h,
                                change_24h |-> trends.change_24h,
                                warning |-> WarningMsg(call.raw_comps,
                                                       call.sensor_offline_warning,
                                                       TrendJump(trends))]]
    /\ UNCHANGED <<core, firstSaved, bg>>

SpecCompute == InitCompute /\ [][ComputeTrends]_vars

--------------------------------------------------------------------------
\* Vocabulary of the COMPUTE properties.

Computed == call.fn = "compute" /\ call.applied

\* The positions of the history points within 1800 s of now - delta.
Near(delta) ==
    {i \in 1..Len(call.history) : Abs(call.history[i].ts - (now - delta)) <= 1800}

--------------------------------------------------------------------------
\* C14: change_1h (change_24h) is the current index minus the index of the
\* history point within 1800 s of now - 3600 s (now - 86400 s), the first
\* such point of the history when there are several, and is null exactly
\* when the history holds no point within that tolerance; the value is
\* always taken from one point, never interpolated.
C14_Trends ==
    Computed =>
        /\ call.out.change_1h = << >> <=> Near(3600) = {}
        /\ call.out.change_24h = << >> <=> Near(86400) = {}
        /\ Near(3600) # {} =>
              call.out.change_1h
                  = <<call.current_aqi - call.history[MinOf(Near(3600))].aqi>>
        /\ Near(86400) # {} =>
              call.out.change_24h
                  = <<call.current_aqi - call.history[MinOf(Near(86400))].aqi>>

\* Two points lie exactly 1800 s before and after now - 3600 s, none near
\* now - 86400 s: change_1h comes from the earlier one, change_24h is null.
C14_Witness ==
    /\ Computed
    /\ Cardinality(Near(3600)) = 2
    /\ \E i \in Near(3600) : call.history[i].ts = now - 3600 - 1800
    /\ \E i \in Near(3600) : call.history[i].ts = now - 3600 + 1800
    /\ call.out.change_1h = <<call.current_aqi - 20>>
    /\ Near(86400) = {}
    /\ call.out.change_24h = << >>
    /\ Len(call.history) >= 3

--------------------------------------------------------------------------
\* C15: the warning holds the unnatural-spike advisory exactly when PM2.5 >
\* 650, PM10 > 600 or change_1h > 150; it holds the sensor advisory whenever
\* there is one; with both, it is the sensor advisory followed by the spike
\* advisory; with neither, it is null.
SpikeTrigger ==
    \/ RatGT(GetOrZero(call.raw_comps.pm2_5), 650)
    \/ RatGT(GetOrZero(call.raw_comps.pm10), 600)
    \/ (call.out.change_1h # << >> /\ call.out.change_1h[1] > 150)

C15_Warning ==
    Computed =>
        LET w == call.out.warning
            advisory == call.sensor_offline_warning
        IN  /\ (SpikeTrigger /\ advisory # "") => w = <<advisory, WARNING_TEXT>>
            /\ (SpikeTrigger /\ advisory = "") => w = <<WARNING_TEXT>>
            /\ (~SpikeTrigger /\ advisory # "") => w = <<advisory>>
            /\ (~SpikeTrigger /\ advisory = "") => w = << >>

\* Only the one-hour jump triggers, a sensor advisory exists, and the warning
\* holds both texts.
C15_Witness ==
    /\ Computed
    /\ ~RatGT(GetOrZero(call.raw_comps.pm2_5), 650)
    /\ ~RatGT(GetOrZero(call.raw_comps.pm10), 600)
    /\ call.out.change_1h # << >>
    /\ call.out.change_1h[1] > 150
    /\ call.sensor_offline_warning = SENSOR_OFFLINE
    /\ call.out.warning = <<SENSOR_OFFLINE, WARNING_TEXT>>

--------------------------------------------------------------------------
\* C16: every cache entry is the complete snapshot of one successful run.  A
\* step changes the cache only as the return of a run that succeeded, only
\* at that run's zone, and to the whole payload that run built and returns
\* (all fields present, its zone_id the key, its timestamp_unix the run's
\* start); a run that fails, or whose task is cancelled while it awaits an
\* upstream answer, leaves every entry as it was.
CompleteSnapshot(e, zone_id) ==
    /\ e # NoSnapshot
    /\ DOMAIN e = DOMAIN full_payload(zone_id, SATELLITE_SOURCE, 0, << >>,
                                      Comps(Rat(0, 1), Rat(0, 1), None, {}))
    /\ e.zone_id = zone_id

C16_WholeSnapshots ==
    [][/\ \A z \in ZONES :
            RAM_CACHE'[z] # RAM_CACHE[z] =>
                \E c \in Callers :
                    /\ Returns(c)
                    /\ RunSucceeded(run'[c])
                    /\ run'[c].zone_id = z
                    /\ RAM_CACHE'[z] = run'[c].result
                    /\ CompleteSnapshot(RAM_CACHE'[z], z)
                    /\ RAM_CACHE'[z].timestamp_unix = run'[c].current_time
       /\ \A c \in Callers :
            (run'[c] # run[c] /\ (RunFailed(run'[c]) \/ run'[c].pc = "cancelled"))
                => RAM_CACHE' = RAM_CACHE
      ]_vars

\* A forced refresh of a zone that has an entry was cancelled during its
\* satellite fetch, after its sensor tier had failed, and the entry is still
\* the complete snapshot the call had found.
C16_Witness ==
    \E c \in Callers :
        /\ run[c].pc = "cancelled"
        /\ run[c].force_refresh
        /\ run[c].sensor = "failed"
        /\ run[c].satellite = "cancelled"
        /\ run[c].cached_data # NoSnapshot
        /\ RAM_CACHE[run[c].zone_id] = run[c].cached_data
        /\ CompleteSnapshot(RAM_CACHE[run[c].zone_id], run[c].zone_id)

--------------------------------------------------------------------------
\* The sensor tier of a single-node zone on its own: fetch_airgradient_common
\* for the node of "rajouri_town", then the checks of get_zone_data on what
\* it returned.

SingleZone == "rajouri_town"

InitSingle ==
    /\ Quiet
    /\ rows \in SUBSET MergeReadings
    /\ call \in {[fn |-> "fetch_airgradient_common", zone_id |-> SingleZone,
                  ag |-> ag, om |-> om, applied |-> FALSE,
                  out |-> [raised |-> FALSE, tier |-> "pending", current_comps |-> NoData]] :
                        ag \in SingleResps(T0), om \in OmKinds}

\* The two requests answer (ag, om); lines 139-231, then lines 556-565 at
\* current_time = now.
FetchSingle ==
    /\ call.fn = "fetch_airgradient_common"
    /\ ~call.applied
    /\ LET res == fetch_airgradient_common(call.zone_id, TokenOf(call.zone_id),
                                           call.ag, call.om, now, rows)
           failed == res.raised \/ SensorCheckFails(res.current_comps, now)
       IN  /\ rows' = res.rows
           /\ call' = [call EXCEPT !.applied = TRUE,
                           !.out = [raised |-> res.raised,
                                    tier |-> IF failed THEN "failed" ELSE "ok",
                                    current_comps |-> res.current_comps]]
    /\ UNCHANGED <<now, ticks, tokens, RAM_CACHE, SPIKE_CACHE, run, lastAgg, aggs,
                   firstSaved, bg>>

SpecSingle == InitSingle /\ [][FetchSingle]_vars

--------------------------------------------------------------------------
\* C17: within one sensor-tier fetch the failure of one request never aborts
\* the batch.  For a single-node zone: when the node's read answers 200 with
\* a PM2.5 value and a timestamp no older than an hour, the tier succeeds
\* with that reading whatever happened to the estimated-gas request
\* (exception or timeout, non-success status, success).
UsableReading(ag) ==
    /\ ag.kind = "200"
    /\ PyOr(ag.pm02_corrected, ag.pm02) # None
    /\ parse_timestamp(ag.timestamp) # None
    /\ now - parse_timestamp(ag.timestamp) <= STALE_LIMIT

C17_FailureIsolated ==
    (call.fn = "fetch_airgradient_common" /\ call.applied /\ UsableReading(call.ag))
        => /\ ~call.out.raised
           /\ call.out.tier = "ok"
           /\ call.out.current_comps.pm2_5
                    = Conc(PyOr(call.ag.pm02_corrected, call.ag.pm02))

--------------------------------------------------------------------------
\* start_background_loop and update_all_zones_background (lines 651-677).
\* The clock of the loop is now; bg holds the position of the loop, the zone
\* being refreshed, the number of the cycle, the calls the cycle has made
\* and the times at which this cycle and the one before it began.

\* ZONES.items(): the zones in the order of the configuration.
ZoneOrder == <<"srinagar", "rajouri_town", "budgam_town">>

\* Cycles after which the loop is no longer followed.
MaxCycles == 2

\* How long a get_zone_data call may take, in seconds.
FetchTimes == {0, 2}

\* What get_zone_data stores on success, as far as the loop is concerned.
LoopPayload(zone_id, current_time) ==
    full_payload(zone_id, SATELLITE_SOURCE, current_time, << >>,
                 Comps(Rat(40, 1), Rat(90, 1), None, {}))

\* The for loop moves on from zone i: to the next zone, or out of
\* update_all_zones_background and into asyncio.sleep(CACHE_DURATION).
AfterZone(b) ==
    IF b.i < Len(ZoneOrder) THEN [b EXCEPT !.pc = "fetch", !.i = b.i + 1]
    ELSE [b EXCEPT !.pc = "sleep"]

\* asyncio.create_task(start_background_loop()): the first cycle begins.
LoopStart ==
    /\ bg = IdleLoop
    /\ bg' = [pc |-> "fetch", i |-> 1, cycle |-> 1, log |-> << >>,
              started |-> now, prev |-> None]
    /\ UNCHANGED <<now, ticks, tokens, RAM_CACHE, SPIKE_CACHE, rows, run, lastAgg, aggs,
                   firstSaved, call>>

\* await get_zone_data(..., force_refresh=True) for zone i ends after d
\* seconds: with a fresh snapshot, stored and stamped with the start of the
\* call; with the entry the call had found (the run failed); or, when it had
\* found none, with the error, which the except branch of line 675 prints.
LoopFetch(outcome, d) ==
    /\ bg # IdleLoop
    /\ bg.pc = "fetch"
    /\ LET z == ZoneOrder[bg.i]
           b == [bg EXCEPT !.log = Append(@, [zone_id |-> z, force_refresh |-> TRUE,
                                              outcome |-> outcome])]
       IN  /\ outcome = "stale" => RAM_CACHE[z] # NoSnapshot
           /\ outcome = "error" => RAM_CACHE[z] = NoSnapshot
           /\ RAM_CACHE' = IF outcome = "fresh"
                              THEN [RAM_CACHE EXCEPT ![z] = LoopPayload(z, now)]
                            ELSE RAM_CACHE
           /\ now' = now + d
           /\ bg' = IF outcome = "error" THEN AfterZone(b) ELSE [b EXCEPT !.pc = "pause"]
    /\ UNCHANGED <<ticks, tokens, SPIKE_CACHE, rows, run, lastAgg, aggs, firstSaved, call>>

\* await asyncio.sleep(1) after a zone that was updated.
LoopPause ==
    /\ bg # IdleLoop
    /\ bg.pc = "pause"
    /\ now' = now + 1
    /\ bg' = AfterZone(bg)
    /\ UNCHANGED <<ticks, tokens, RAM_CACHE, SPIKE_CACHE, rows, run, lastAgg, aggs,
                   firstSaved, call>>

\* await asyncio.sleep(CACHE_DURATION), then the next iteration of while True.
LoopSleep ==
    /\ bg # IdleLoop
    /\ bg.pc = "sleep"
    /\ bg.cycle < MaxCycles
    /\ now' = now + CACHE_DURATION
    /\ bg' = [pc |-> "fetch", i |-> 1, cycle |-> bg.cycle + 1, log |-> << >>,
              started |-> now + CACHE_DURATION, prev |-> bg.started]
    /\ UNCHANGED <<ticks, tokens, RAM_CACHE, SPIKE_CACHE, rows, run, lastAgg, aggs,
                   firstSaved, call>>

\* The task is cancelled at one of its awaits; CancelledError is no
\* Exception, so neither except branch keeps the loop going.
LoopCancel ==
    /\ bg # IdleLoop
    /\ bg.pc \in {"fetch", "pause", "sleep"}
    /\ bg' = [bg EXCEPT !.pc = "cancelled"]
    /\ UNCHANGED <<now, ticks, tokens, RAM_CACHE, SPIKE_CACHE, rows, run, lastAgg, aggs,
                   firstSaved, call>>

NextLoop ==
    \/ LoopStart
    \/ \E o \in {"fresh", "stale", "error"}, d \in FetchTimes : LoopFetch(o, d)
    \/ LoopPause
    \/ LoopSleep
    \/ LoopCancel

SpecLoop == Init /\ [][NextLoop]_vars

--------------------------------------------------------------------------
\* C18: the background driver repeats a cycle in which get_zone_data is
\* called with force_refresh = true exactly once for every configured zone,
\* in configuration order, a failure for one zone stopping neither the rest
\* of the cycle nor later cycles, and a cycle begins every 900 s.

\* The calls a cycle has made are the first zones of the configuration, in
\* order, each once and forced; a cycle that reached the sleep has made one
\* for every zone, whatever their outcomes.
CycleInOrder ==
    bg # IdleLoop =>
        /\ Len(bg.log) <= Len(ZoneOrder)
        /\ \A k \in 1..Len(bg.log) :
                bg.log[k].zone_id = ZoneOrder[k] /\ bg.log[k].force_refresh
        /\ bg.pc = "fetch" => Len(bg.log) = bg.i - 1
        /\ bg.pc = "pause" => Len(bg.log) = bg.i
        /\ bg.pc = "sleep" => Len(bg.log) = Len(ZoneOrder)

\* A cycle begins 900 s after the one before it began.
CycleEvery900 ==
    (bg # IdleLoop /\ bg.cycle > 1) => bg.started - bg.prev = CACHE_DURATION

C18_CycleEvery900InOrder == CycleInOrder /\ CycleEvery900

--------------------------------------------------------------------------
\* C19: provided every upstream request eventually answers, fails or times
\* out, every call of get_zone_data that is waiting for an upstream answer
\* eventually ends: it returns a snapshot, raises an error, or is left by the
\* cancellation of its task; no path of the cascade waits forever or loops.
Ended(c) == run[c].pc \in {"done", "cancelled"}

C19_CallsEnd ==
    \A c \in Callers : InFlight(run[c]) ~> Ended(c)

\* A call went through every await of the cascade (backfill, sensor tier,
\* satellite tier) and ended with an error.
C19_Witness ==
    \E c \in Callers :
        /\ run[c].pc = "done"
        /\ run[c].zone_id = "rajouri_town"
        /\ \E w \in rows : w.zone_id = "rajouri_town" /\ w.timestamp < run[c].current_time
        /\ run[c].sensor = "failed"
        /\ run[c].satellite = "failed"
        /\ run[c].outcome = "error"

--------------------------------------------------------------------------
\* app/core/conversions.py: the index of one pollutant under each standard.
\* Concentrations are counted in hundredths of their unit (50045 is 500.45);
\* a bracket is <<c_low, c_high, i_low, i_high>> with its concentrations in
\* hundredths; None stands for Python's None.

\* A bracket whose bounds are given in tenths, and one given in whole units.
Tenths(c_lo, c_hi, i_lo, i_hi) == <<c_lo * 10, c_hi * 10, i_lo, i_hi>>
Units(c_lo, c_hi, i_lo, i_hi) == <<c_lo * 100, c_hi * 100, i_lo, i_hi>>

UsPollutants == {"pm2_5", "pm10", "no2", "so2", "co"}

\* US_BREAKPOINTS (lines 6-52).
US_BREAKPOINTS(pollutant) ==
    CASE pollutant = "pm2_5" ->
            <<Tenths(0, 90, 0, 50), Tenths(91, 354, 51, 100), Tenths(355, 554, 101, 150),
              Tenths(555, 1254, 151, 200), Tenths(1255, 2254, 201, 300),
              Tenths(2255, 3254, 301, 400), Tenths(3255, 5004, 401, 500)>>
      [] pollutant = "pm10" ->
            <<Units(0, 54, 0, 50), Units(55, 154, 51, 100), Units(155, 254, 101, 150),
              Units(255, 354, 151, 200), Units(355, 424, 201, 300),
              Units(425, 504, 301, 400), Units(505, 604, 401, 500)>>
      [] pollutant = "no2" ->
            <<Units(0, 53, 0, 50), Units(54, 100, 51, 100), Units(101, 360, 101, 150),
              Units(361, 649, 151, 200), Units(650, 1249, 201, 300),
              Units(1250, 1649, 301, 400), Units(1650, 2049, 401, 500)>>
      [] pollutant = "so2" ->
            <<Units(0, 35, 0, 50), Units(36, 75, 51, 100), Units(76, 185, 101, 150),
              Units(186, 304, 151, 200), Units(305, 604, 201, 300),
              Units(605, 804, 301, 400), Units(805, 1004, 401, 500)>>
      [] pollutant = "co" ->
            <<Tenths(0, 44, 0, 50), Tenths(45, 94, 51, 100), Tenths(95, 124, 101, 150),
              Tenths(125, 154, 151, 200), Tenths(155, 304, 201, 300),
              Tenths(305, 404, 301, 400), Tenths(405, 504, 401, 500)>>

\* AQI_BREAKPOINTS, loaded from aqi_breakpoints.json: the national PM2.5
\* brackets as the specification gives them.
NationalPollutants == {"pm2_5"}

AQI_BREAKPOINTS(pollutant) ==
    <<Units(0, 30, 0, 50), Units(31, 60, 51, 100)>>

\* int(x) for the quotient n / d with d > 0: truncation toward zero.
IntOf(n, d) == IF n >= 0 THEN n \div d ELSE 0 - ((0 - n) \div d)

\* linear_interpolate with the slope truncated to an integer before it is
\* multiplied.
linear_interpolate_floor_slope(c, bp) ==
    IF bp[2] = bp[1] THEN bp[3]
    ELSE IntOf(IntOf((bp[4] - bp[3]) * 100, bp[2] - bp[1]) * (c - bp[1]) + bp[3] * 100, 100)

\* linear_interpolate measured from the upper bound of the bracket: c_hi - c
\* in place of c - c_lo.
linear_interpolate_from_top(c, bp) ==
    IF bp[2] = bp[1] THEN bp[3]
    ELSE IntOf((bp[4] - bp[3]) * (bp[2] - c) + bp[3] * (bp[2] - bp[1]), bp[2] - bp[1])

\* linear_interpolate (lines 69-74), in exact arithmetic.
linear_interpolate(c, bp) ==
    IF bp[2] = bp[1] THEN bp[3]
    ELSE IntOf((bp[4] - bp[3]) * (c - bp[1]) + bp[3] * (bp[2] - bp[1]), bp[2] - bp[1])

\* Lines 82-85: math.floor(conc * 10) / 10 for PM2.5 and CO, int(conc) for
\* the others.
TruncateUs(pollutant, conc) ==
    IF pollutant \in {"pm2_5", "co"} THEN (conc \div 10) * 10
    ELSE IntOf(conc, 100) * 100

\* Lookup with the lower bound of a bracket excluded.
LookupExclusiveLow(bps, conc) ==
    LET hits == {i \in 1..Len(bps) : bps[i][1] < conc /\ conc <= bps[i][2]}
    IN  IF conc < bps[1][1] THEN 0
        ELSE IF hits # {} THEN linear_interpolate(conc, bps[MinOf(hits)])
        ELSE IF conc > bps[Len(bps)][2] THEN 500
        ELSE None

\* Lines 87-98 and 106-117: the lookup of conc in the bracket list bps.
Lookup(bps, conc) ==
    LET hits == {i \in 1..Len(bps) : bps[i][1] <= conc /\ conc <= bps[i][2]}
    IN  IF conc < bps[1][1] THEN 0
        ELSE IF hits # {} THEN linear_interpolate(conc, bps[MinOf(hits)])
        ELSE IF conc > bps[Len(bps)][2] THEN 500
        ELSE None

\* Lookup without the ceiling of lines 94-96.
LookupNoCeiling(bps, conc) ==
    LET hits == {i \in 1..Len(bps) : bps[i][1] <= conc /\ conc <= bps[i][2]}
    IN  IF conc < bps[1][1] THEN 0
        ELSE IF hits # {} THEN linear_interpolate(conc, bps[MinOf(hits)])
        ELSE None

\* get_us_aqi without the ceiling: None beyond the last bracket.
get_us_aqi_no_ceiling(pollutant, conc) ==
    IF pollutant \notin UsPollutants THEN None
    ELSE LookupNoCeiling(US_BREAKPOINTS(pollutant), TruncateUs(pollutant, conc))

\* get_us_aqi (lines 76-98).
get_us_aqi(pollutant, conc) ==
    IF pollutant \notin UsPollutants THEN None
    ELSE Lookup(US_BREAKPOINTS(pollutant), TruncateUs(pollutant, conc))

\* get_single_pollutant_aqi (lines 100-117).
get_single_pollutant_aqi(pollutant, conc) ==
    IF pollutant \notin NationalPollutants THEN None
    ELSE Lookup(AQI_BREAKPOINTS(pollutant), conc)

\* The bracket list of a pollutant under a standard.
TableOf(standard, pollutant) ==
    IF standard = "us" THEN US_BREAKPOINTS(pollutant) ELSE AQI_BREAKPOINTS(pollutant)

\* The concentrations a lookup is exercised on: around both bounds of every
\* bracket, inside it, below zero and far above the last bracket.
ConcsOf(bps) ==
    UNION {{bps[i][1] - 1, bps[i][1], bps[i][1] + 1, (bps[i][1] + bps[i][2]) \div 2,
            bps[i][2] - 1, bps[i][2], bps[i][2] + 1, bps[i][2] + 5, bps[i][2] + 10,
            bps[i][2] + 50} : i \in 1..Len(bps)}
    \cup {0 - 150, 0 - 5, bps[Len(bps)][2] + 100, bps[Len(bps)][2] + 100000}

IndexCalls ==
    {[fn |-> "index", standard |-> st, pollutant |-> p, conc |-> c,
      applied |-> FALSE, out |-> None] :
        st \in {"us"}, p \in UsPollutants, c \in UNION {ConcsOf(US_BREAKPOINTS(q)) : q \in UsPollutants}}
    \cup {[fn |-> "index", standard |-> st, pollutant |-> p, conc |-> c,
           applied |-> FALSE, out |-> None] :
        st \in {"national"}, p \in NationalPollutants \cup {"o3"},
        c \in ConcsOf(AQI_BREAKPOINTS("pm2_5"))}

InitIndex ==
    /\ Quiet
    /\ rows = {}
    /\ call \in IndexCalls

\* The index of call.conc of call.pollutant under call.standard.
ApplyIndex ==
    /\ call.fn = "index"
    /\ ~call.applied
    /\ call' = [call EXCEPT !.applied = TRUE,
                    !.out = IF call.standard = "us"
                                THEN get_us_aqi(call.pollutant, call.conc)
                            ELSE get_single_pollutant_aqi(call.pollutant, call.conc)]
    /\ UNCHANGED <<core, firstSaved, bg>>

SpecIndex == InitIndex /\ [][ApplyIndex]_vars

--------------------------------------------------------------------------
\* C20: for every pollutant with a breakpoint table, under both standards, a
\* concentration below the lower bound of the first bracket has index 0 and
\* a concentration above the upper bound of the last bracket has index 500.
HasTable(standard, pollutant) ==
    IF standard = "us" THEN pollutant \in UsPollutants ELSE pollutant \in NationalPollutants

C20_ZeroBelowCeilingAbove ==
    (call.fn = "index" /\ call.applied /\ HasTable(call.standard, call.pollutant)) =>
        LET bps == TableOf(call.standard, call.pollutant)
        IN  /\ call.conc < bps[1][1] => call.out = 0
            /\ call.conc > bps[Len(bps)][2] => call.out = 500

\* PM10 at 604.5 under the second standard, above the last bracket's 604
\* (and truncated onto it by the lookup), has index 500.
C20_Witness ==
    /\ call.fn = "index"
    /\ call.applied
    /\ call.standard = "us"
    /\ call.pollutant = "pm10"
    /\ call.conc = 60450
    /\ call.out = 500

--------------------------------------------------------------------------
\* linear_interpolate on its own, next to the lookups: a bracket and two
\* concentrations c1 <= c2 inside it.

\* Every bracket of every table, and one whose bounds coincide.
DegenerateBracket == <<5000, 5000, 101, 150>>

Brackets ==
    UNION {{US_BREAKPOINTS(p)[i] : i \in 1..Len(US_BREAKPOINTS(p))} : p \in UsPollutants}
    \cup UNION {{AQI_BREAKPOINTS(p)[i] : i \in 1..Len(AQI_BREAKPOINTS(p))} :
                    p \in NationalPollutants}
    \cup {DegenerateBracket}

\* Concentrations inside bracket bp.
InsideOf(bp) ==
    {c \in {bp[1], bp[1] + 1, bp[1] + 10, (bp[1] + bp[2]) \div 2, bp[2] - 10, bp[2] - 1, bp[2]} :
        bp[1] <= c /\ c <= bp[2]}

InterpCalls ==
    UNION {{[fn |-> "linear_interpolate", bp |-> bp, c1 |-> pr[1], c2 |-> pr[2],
             applied |-> FALSE, out |-> <<None, None>>] :
                pr \in {q \in InsideOf(bp) \X InsideOf(bp) : q[1] <= q[2]}} : bp \in Brackets}

InitBracket ==
    /\ Quiet
    /\ rows = {}
    /\ call \in IndexCalls \cup InterpCalls

\* linear_interpolate(c1, bp) and linear_interpolate(c2, bp).
ApplyInterpolate ==
    /\ call.fn = "linear_interpolate"
    /\ ~call.applied
    /\ call' = [call EXCEPT !.applied = TRUE,
                    !.out = <<linear_interpolate(call.c1, call.bp),
                              linear_interpolate(call.c2, call.bp)>>]
    /\ UNCHANGED <<core, firstSaved, bg>>

NextBracket == ApplyIndex \/ ApplyInterpolate

SpecBracket == InitBracket /\ [][NextBracket]_vars

--------------------------------------------------------------------------
\* Vocabulary of the index properties.

Indexed == call.fn = "index" /\ call.applied /\ HasTable(call.standard, call.pollutant)

Interpolated == call.fn = "linear_interpolate" /\ call.applied

--------------------------------------------------------------------------
\* C21: a concentration equal to the lower bound of one of the brackets of
\* its pollutant has that bracket's lower index (the lower bound is
\* inclusive), and a bracket whose bounds coincide gives its lower index.
C21_LowerBoundInclusive ==
    /\ Indexed =>
          LET bps == TableOf(call.standard, call.pollutant)
          IN  \A i \in 1..Len(bps) : call.conc = bps[i][1] => call.out = bps[i][3]
    /\ (Interpolated /\ call.bp[1] = call.bp[2]) => call.out[1] = call.bp[3]

\* PM2.5 at 9.1, the lower bound of the second bracket of the second
\* standard, has index 51.
C21_Witness ==
    /\ Indexed
    /\ call.standard = "us"
    /\ call.pollutant = "pm2_5"
    /\ call.conc = 910
    /\ call.out = 51

--------------------------------------------------------------------------
\* C22: for every pollutant with a table, under both standards, every
\* concentration from the first bracket's lower bound to the last bracket's
\* upper bound is matched by exactly one bracket at lookup time and gets an
\* index: none falls between two brackets.

\* The concentration the bracket list is searched with.
LookedUp ==
    IF call.standard = "us" THEN TruncateUs(call.pollutant, call.conc) ELSE call.conc

\* The brackets that contain it.
MatchingBrackets ==
    LET bps == TableOf(call.standard, call.pollutant)
    IN  {i \in 1..Len(bps) : bps[i][1] <= LookedUp /\ LookedUp <= bps[i][2]}

Covered ==
    LET bps == TableOf(call.standard, call.pollutant)
    IN  bps[1][1] <= call.conc /\ call.conc <= bps[Len(bps)][2]

C22_NoGaps ==
    (Indexed /\ Covered) =>
        /\ Cardinality(MatchingBrackets) = 1
        /\ call.out # None

\* The same for the second standard alone.
C22_NoGapsSecondStandard ==
    call.standard = "us" => C22_NoGaps

--------------------------------------------------------------------------
\* calculate_overall_aqi in full (lines 124-188).  pollutants_ugm3 is a dict:
\* here the sequence of its items <<raw_key, val>> in insertion order, the
\* raw keys distinct, val in hundredths of a microgram per cubic metre or
\* None.  The dicts the function builds are sequences of <<key, value>> in
\* insertion order as well.

\* raw_key.lower().strip() for the keys the function is exercised on.
LowerStrip(raw_key) ==
    CASE raw_key = "PM2.5" -> "pm2.5"
      [] raw_key = "PM10" -> "pm10"
      [] raw_key = " NO2 " -> "no2"
      [] raw_key = "CO" -> "co"
      [] raw_key = "Temp" -> "temp"
      [] raw_key = "Sulphur_Dioxide" -> "sulphur_dioxide"
      [] raw_key = "O3" -> "o3"
      [] OTHER -> raw_key

\* key_map (lines 129-136); "" when k is no key of it.
key_map(k) ==
    CASE k \in {"pm2.5", "pm2_5", "pm25"} -> "pm2_5"
      [] k = "pm10" -> "pm10"
      [] k \in {"co", "carbon_monoxide"} -> "co"
      [] k \in {"no2", "nitrogen_dioxide"} -> "no2"
      [] k \in {"so2", "sulphur_dioxide"} -> "so2"
      [] k \in {"ch4", "methane"} -> "ch4"
      [] OTHER -> ""

\* d[k] = v on a dict: the value is replaced where the key stands, a new key
\* goes to the end.
Put(d, k, v) ==
    IF \E i \in 1..Len(d) : d[i][1] = k
    THEN [i \in 1..Len(d) |-> IF d[i][1] = k THEN <<k, v>> ELSE d[i]]
    ELSE Append(d, <<k, v>>)

\* max(d, key=d.get) taking the last of the keys with the greatest value.
MaxKeyLast(d) ==
    LET best == {i \in 1..Len(d) : \A j \in 1..Len(d) : d[j][2] <= d[i][2]}
    IN  d[CHOOSE i \in best : \A j \in best : j <= i][1]

\* max(d, key=d.get) (lines 172, 176): the first key, in the order of the
\* dict, whose value is the greatest.
MaxKey(d) ==
    LET best == {i \in 1..Len(d) : \A j \in 1..Len(d) : d[j][2] <= d[i][2]}
    IN  d[MinOf(best)][1]

Get(d, k) == d[CHOOSE i \in 1..Len(d) : d[i][1] = k][2]

\* The quotient n / d (n >= 0, d > 0) rounded to the nearest integer, a tie
\* going to the even one: round(x, 2) on a value counted in hundredths.
RoundDiv(n, d) ==
    LET q == n \div d
        r == n % d
    IN  IF 2 * r < d THEN q
        ELSE IF 2 * r > d THEN q + 1
        ELSE IF q % 2 = 0 THEN q ELSE q + 1

\* prepare_for_indian_aqi followed by round(.., 2) (lines 119-122, 146-147),
\* in hundredths.
IndianUnits(internal_key, val) ==
    IF internal_key \in {"co", "ch4"} THEN RoundDiv(val, 1000) ELSE val

\* prepare_for_indian_aqi as the lookup receives it, cut to hundredths.
IndianLookup(internal_key, val) ==
    IF internal_key \in {"co", "ch4"} THEN val \div 1000 ELSE val

\* _ugm3_to_ppb (lines 61-67): ugm3 * 24.45 / molar mass, for CO divided by
\* 1000; in hundredths, cut to hundredths.
ugm3_to_ppb(pollutant, ugm3) ==
    CASE pollutant = "no2" -> (ugm3 * 48900) \div 92011
      [] pollutant = "so2" -> (ugm3 * 12225) \div 32033
      [] pollutant = "co" -> (ugm3 * 2445) \div 2801000

\* The body of the for loop (lines 138-163) for one item, on the three dicts.
AqiStep(acc, item) ==
    LET internal_key == key_map(LowerStrip(item[1]))
        val == item[2]
        aqi_val == get_single_pollutant_aqi(internal_key, IndianLookup(internal_key, val))
        us_val == IF internal_key \in {"pm2_5", "pm10"} THEN get_us_aqi(internal_key, val)
                  ELSE IF internal_key \in {"no2", "so2", "co"}
                      THEN get_us_aqi(internal_key, ugm3_to_ppb(internal_key, val))
                  ELSE None
    IN  IF acc.raised \/ internal_key = "" THEN acc
        ELSE IF val = None THEN [acc EXCEPT !.raised = TRUE]
        ELSE [acc EXCEPT
                !.concentrations_formatted = Put(@, internal_key, IndianUnits(internal_key, val)),
                !.aqi_details = IF aqi_val # None THEN Put(@, internal_key, aqi_val) ELSE @,
                !.us_aqi_details = IF us_val # None THEN Put(@, internal_key, us_val) ELSE @]

RECURSIVE AqiLoop(_, _)
AqiLoop(acc, items) ==
    IF items = << >> THEN acc ELSE AqiLoop(AqiStep(acc, Head(items)), Tail(items))

\* calculate_overall_aqi on the items of pollutants_ugm3.
calculate_overall_aqi_items(items) ==
    LET acc == AqiLoop([raised |-> FALSE, concentrations_formatted |-> << >>,
                        aqi_details |-> << >>, us_aqi_details |-> << >>], items)
        main_pollutant == IF acc.aqi_details # << >> THEN MaxKey(acc.aqi_details) ELSE "n/a"
        us_main_pollutant ==
            IF acc.us_aqi_details # << >> THEN MaxKey(acc.us_aqi_details) ELSE "n/a"
    IN  IF acc.raised
        THEN [raised |-> TRUE, aqi |-> 0, us_aqi |-> 0, main_pollutant |-> "n/a",
              us_main_pollutant |-> "n/a", aqi_breakdown |-> << >>,
              us_breakdown |-> << >>, concentrations_us_units |-> << >>]
        ELSE [raised |-> FALSE,
              aqi |-> IF acc.aqi_details # << >>
                        THEN Get(acc.aqi_details, main_pollutant) ELSE 0,
              us_aqi |-> IF acc.us_aqi_details # << >>
                           THEN Get(acc.us_aqi_details, us_main_pollutant) ELSE 0,
              main_pollutant |-> main_pollutant,
              us_main_pollutant |-> us_main_pollutant,
              aqi_breakdown |-> acc.aqi_details,
              us_breakdown |-> acc.us_aqi_details,
              concentrations_us_units |-> acc.concentrations_formatted]

\* The items the function is exercised on: every pollutant of the alias
\* table under some spelling, keys outside it, equal indices under the
\* second standard (PM2.5 9.0 and PM10 54), a national PM2.5 between two
\* brackets (30.5), and a None.
ItemPool ==
    {<<"pm2_5", 4000>>, <<"PM2.5", 900>>, <<"pm25", 3050>>, <<"pm10", 8000>>,
     <<"PM10", 5400>>, <<" NO2 ", 4000>>, <<"Sulphur_Dioxide", 2000>>, <<"CO", 50000>>,
     <<"methane", 120000>>, <<"o3", 5000>>, <<"Temp", 2500>>, <<"_ag_timestamp", 100000>>,
     <<"so2", None>>}

MaxItems == 3

ItemLists ==
    {items \in UNION {[1..n -> ItemPool] : n \in 0..MaxItems} :
        \A i, j \in 1..Len(items) : i # j => items[i][1] # items[j][1]}

InitOverall ==
    /\ Quiet
    /\ rows = {}
    /\ call \in {[fn |-> "calculate_overall_aqi", items |-> items, applied |-> FALSE,
                  out |-> calculate_overall_aqi_items(<< >>)] : items \in ItemLists}

ApplyOverall ==
    /\ call.fn = "calculate_overall_aqi"
    /\ ~call.applied
    /\ call' = [call EXCEPT !.applied = TRUE,
                    !.out = calculate_overall_aqi_items(call.items)]
    /\ UNCHANGED <<core, firstSaved, bg>>

SpecOverall == InitOverall /\ [][ApplyOverall]_vars

--------------------------------------------------------------------------
\* Vocabulary of the calculate_overall_aqi properties.

Calculated == call.fn = "calculate_overall_aqi" /\ call.applied /\ ~call.out.raised

\* The canonical key of the item at position i ("" when the alias table does
\* not know its key).
CanonOf(i) == key_map(LowerStrip(call.items[i][1]))

\* Where pollutant k first stands in the input.
FirstSeen(k) == MinOf({i \in 1..Len(call.items) : CanonOf(i) = k})

\* aqi and main_pollutant follow the rule of the maximum on breakdown d.
MaxRule(d, aqi, main_pollutant) ==
    IF d = << >> THEN aqi = 0 /\ main_pollutant = "n/a"
    ELSE /\ \A i \in 1..Len(d) : d[i][2] <= aqi
         /\ \E i \in 1..Len(d) :
                /\ d[i][1] = main_pollutant
                /\ d[i][2] = aqi
                /\ \A j \in 1..Len(d) :
                        d[j][2] = aqi => FirstSeen(main_pollutant) <= FirstSeen(d[j][1])

--------------------------------------------------------------------------
\* C23: in every result of calculate_overall_aqi, aqi is the maximum of the
\* per-pollutant indices and main_pollutant a key attaining it, the one that
\* comes first in the input on a tie; us_aqi and us_main_pollutant follow
\* the same rule over the second-standard indices; with no index at all the
\* value is 0 and the pollutant "n/a".
C23_MaxAndFirstOnTie ==
    Calculated =>
        /\ MaxRule(call.out.aqi_breakdown, call.out.aqi, call.out.main_pollutant)
        /\ MaxRule(call.out.us_breakdown, call.out.us_aqi, call.out.us_main_pollutant)

\* PM10 54 and PM2.5 9.0 both have the second-standard index 50, PM10 comes
\* first in the input and is the main pollutant; the national index is that
\* of PM2.5, the only one with a national table.
C23_Witness ==
    /\ Calculated
    /\ call.items = <<<<"PM10", 5400>>, <<"PM2.5", 900>>, <<"Temp", 2500>>>>
    /\ call.out.us_breakdown = <<<<"pm10", 50>>, <<"pm2_5", 50>>>>
    /\ call.out.us_aqi = 50
    /\ call.out.us_main_pollutant = "pm10"
    /\ call.out.aqi = 15
    /\ call.out.main_pollutant = "pm2_5"

--------------------------------------------------------------------------
\* C24: with the national PM2.5 brackets [(0,30,0,50),(31,60,51,100)] the
\* sample {pm2_5: 40.0, pm10: 80} has the PM2.5 index
\* 51 + (100-51)/(60-31)*(40-31) rounded toward zero, and the overall index
\* is that value, the maximum among the supplied pollutants.
SampleOfExample ==
    /\ Calculated
    /\ call.items = <<<<"pm2_5", 4000>>, <<"pm10", 8000>>>>

\* As stated, with the value 65.
C24_IndexIs65 ==
    SampleOfExample =>
        /\ call.out.aqi_breakdown = <<<<"pm2_5", 65>>>>
        /\ call.out.aqi = 65

\* 51 + 49/29 * 9 is 66.2...: the index is 66.
C24_IndexIs66 ==
    SampleOfExample =>
        /\ call.out.aqi_breakdown = <<<<"pm2_5", IntOf(51 * 29 + 49 * 9, 29)>>>>
        /\ call.out.aqi = 66
        /\ call.out.main_pollutant = "pm2_5"

C24_Witness ==
    /\ SampleOfExample
    /\ call.out.aqi = 66
    /\ call.out.concentrations_us_units = <<<<"pm2_5", 4000>>, <<"pm10", 8000>>>>

--------------------------------------------------------------------------
\* C25: within one bracket the interpolated index does not decrease as the
\* concentration grows: for c1 <= c2 inside the bracket,
\* linear_interpolate(c1) <= linear_interpolate(c2), and both lie between
\* the bracket's lower and upper index.
C25_Monotone ==
    Interpolated =>
        /\ call.bp[1] <= call.c1 /\ call.c1 <= call.c2 /\ call.c2 <= call.bp[2]
        /\ call.bp[3] <= call.out[1]
        /\ call.out[1] <= call.out[2]
        /\ call.out[2] <= call.bp[4]

\* In the bracket (35.5, 55.4, 101, 150) the bounds have the indices 101 and
\* 150.
C25_Witness ==
    /\ Interpolated
    /\ call.bp = <<3550, 5540, 101, 150>>
    /\ call.c1 = 3550
    /\ call.c2 = 5540
    /\ call.out = <<101, 150>>

--------------------------------------------------------------------------
\* C26: calculate_overall_aqi normalizes every input key, whatever its
\* letter case, through the alias table: each pollutant of the canonical set
\* (pm2_5, pm10, co, no2, so2, o3, ch4) supplied under any spelling stands
\* in the normalized concentrations under its canonical key, and every other
\* key is dropped without an error.
CanonicalSet == {"pm2_5", "pm10", "co", "no2", "so2", "o3", "ch4"}

\* The canonical key the item at position i is to be filed under ("" for a
\* key of no pollutant of the set).
CanonicalOf(i) ==
    IF LowerStrip(call.items[i][1]) \in CanonicalSet THEN LowerStrip(call.items[i][1])
    ELSE CanonOf(i)

NormalizedKeys ==
    {call.out.concentrations_us_units[j][1] : j \in 1..Len(call.out.concentrations_us_units)}

C26_AliasesNormalized ==
    (call.fn = "calculate_overall_aqi" /\ call.applied) =>
        /\ call.out.raised => \E i \in 1..Len(call.items) : call.items[i][2] = None
        /\ ~call.out.raised =>
              /\ \A i \in 1..Len(call.items) :
                    CanonicalOf(i) # "" => CanonicalOf(i) \in NormalizedKeys
              /\ NormalizedKeys \subseteq CanonicalSet

\* The same for the pollutants other than o3.
C26_AliasesButOzone ==
    (call.fn = "calculate_overall_aqi" /\ call.applied) =>
        /\ call.out.raised => \E i \in 1..Len(call.items) : call.items[i][2] = None
        /\ ~call.out.raised =>
              /\ \A i \in 1..Len(call.items) :
                    CanonicalOf(i) \notin {"", "o3"} => CanonicalOf(i) \in NormalizedKeys
              /\ NormalizedKeys \subseteq CanonicalSet

--------------------------------------------------------------------------
\* The aggregator with answers that meet several exclusion rules at once: a
\* node in grace whose request fails, a reading without PM2.5 that is old,
\* an old reading above the absolute limit.

StatusResps(t) ==
    {<<a, b, c>> :
        a \in {Reading(700, 80, t), RespException, RespNon200},
        b \in {Reading(None, 80, t - 5000), Reading(700, 80, t - 5000), Reading(40, 90, t)},
        c \in {Reading(30, 80, t), Reading(300, 80, t)}}

NextStatus ==
    \/ \E resps \in StatusResps(now) : Aggregate(resps)
    \/ AggTick

SpecStatus == Init /\ [][NextStatus]_vars

--------------------------------------------------------------------------
\* C27: in one multi-node aggregation every node gets exactly one status,
\* the one of the first rule that applies, in this order: spike record in
\* grace -> grace_period; request exception -> error, non-success -> offline;
\* PM2.5 missing -> no_data; reading older than 3600 s -> stale; absolute or
\* rate-of-change spike -> spike_detected, with a spike record stored;
\* otherwise active.  Only the active nodes are averaged, and only for them
\* is a reading persisted under the key of the node.

\* The time of the reading resp when the call runs at t.
ReadingTs(resp, t) ==
    IF parse_timestamp(resp.timestamp) = None THEN t ELSE parse_timestamp(resp.timestamp)

\* The status the rules give node i for the answer resp, from the spike
\* records and the stored readings as they are before the call.
RuleStatus(i, resp) ==
    LET k == NodeKey(AggZone, TestNodes[i])
    IN  IF SPIKE_CACHE[k] # None /\ now - SPIKE_CACHE[k] < 3600 THEN "grace_period"
        ELSE IF resp.kind = "exception" THEN "error"
        ELSE IF resp.kind # "200" THEN "offline"
        ELSE IF NodePM25(resp) = None THEN "no_data"
        ELSE IF parse_timestamp(resp.timestamp) # None
                /\ now - parse_timestamp(resp.timestamp) > 3600 THEN "stale"
        ELSE IF \/ NodePM25(resp) > 650
                \/ NodePM10(resp) > 600
                \/ JumpSpike(rows, k, NodePM25(resp), ReadingTs(resp, now), now)
            THEN "spike_detected"
        ELSE "active"

RowsOf(table, k) == {w \in table : w.zone_id = k}

C27_OneStatusByFirstRule ==
    [][(aggs' # aggs /\ tokens.airgradient_token) =>
        /\ Len(lastAgg'.node_statuses) = Len(TestNodes)
        /\ \A i \in 1..Len(TestNodes) :
              LET k == NodeKey(AggZone, TestNodes[i])
                  resp == lastAgg'.resps[i]
                  st == StatusOf(lastAgg', i)
              IN  /\ lastAgg'.node_statuses[i].node = TestNodes[i]
                  /\ st = RuleStatus(i, resp)
                  /\ st = "spike_detected" => SPIKE_CACHE'[k] = now
                  /\ st = "active" =>
                        /\ \E w \in rows' : w.zone_id = k /\ w.timestamp = ReadingTs(resp, now)
                        /\ ~lastAgg'.raised
                        /\ ReadingTs(resp, now) \in lastAgg'.current_comps.reading_ts
                  /\ st # "active" => RowsOf(rows', k) = RowsOf(rows, k)
        /\ ~lastAgg'.raised =>
              /\ lastAgg'.current_comps.node_count = Cardinality(ActiveNodes(lastAgg'))
              /\ lastAgg'.current_comps.pm2_5.num * Cardinality(ActiveNodes(lastAgg'))
                    = SumPM25(lastAgg'.resps, ActiveNodes(lastAgg'))
                        * lastAgg'.current_comps.pm2_5.den
      ]_vars

\* One aggregation met three rules that compete with later ones: node A, in
\* grace, had a failed request and got grace_period; node B, without PM2.5
\* and 5000 s old, got no_data; node C read 300 against a stored 30 and got
\* spike_detected, with its record stored.
C27_Witness ==
    /\ lastAgg # NoAgg
    /\ Len(lastAgg.node_statuses) = Len(TestNodes)
    /\ lastAgg.resps[1] = RespException
    /\ StatusOf(lastAgg, 1) = "grace_period"
    /\ lastAgg.resps[2] = Reading(None, 80, lastAgg.current_time - 5000)
    /\ StatusOf(lastAgg, 2) = "no_data"
    /\ lastAgg.resps[3] = Reading(300, 80, lastAgg.current_time)
    /\ StatusOf(lastAgg, 3) = "spike_detected"
    /\ SPIKE_CACHE[NodeKey(AggZone, "C")] = lastAgg.current_time
    /\ lastAgg.raised

--------------------------------------------------------------------------
\* C28: every orchestrator run follows one of the paths
\* TRY_SENSOR -> COMPUTE -> DONE, TRY_SENSOR -> TRY_SATELLITE -> COMPUTE ->
\* DONE or, for a zone without sensor configuration, TRY_SATELLITE ->
\* COMPUTE -> DONE, or ends in failure after TRY_SATELLITE; each tier is
\* attempted at most once and a source that failed is not attempted again.

\* The run of r went through one of the paths of the claim.
OnAPath(r) ==
    \/ r.sensor = "ok" /\ r.satellite = "none" /\ r.compute = "ok"
    \/ r.sensor = "failed" /\ r.satellite = "ok" /\ r.compute = "ok"
    \/ /\ NodesOf(r.zone_id) = << >>
       /\ r.sensor = "none" /\ r.satellite = "ok" /\ r.compute = "ok"
    \/ /\ r.satellite = "failed" /\ r.compute = "none"
       /\ r.sensor = (IF NodesOf(r.zone_id) = << >> THEN "none" ELSE "failed")

\* The steps of a run go forward only, and a tier that has ended is not
\* started again.
TiersAtMostOnce ==
    [][\A c \in Callers :
        /\ run[c].pc = "backfill" => run'[c].pc \in {"backfill", "sensor", "cancelled"}
        /\ run[c].pc = "sensor" => run'[c].pc \in {"sensor", "satellite", "done", "cancelled"}
        /\ run[c].pc = "satellite" => run'[c].pc \in {"satellite", "done", "cancelled"}
        /\ run[c].pc \in {"done", "cancelled"} => run'[c] = run[c]
        /\ run[c].sensor \in {"ok", "failed"} => run'[c].sensor = run[c].sensor
        /\ run[c].satellite \in {"ok", "failed"} => run'[c].satellite = run[c].satellite
        /\ run'[c].satellite = "pending" =>
              (run'[c].sensor = "failed" \/ NodesOf(run'[c].zone_id) = << >>)
      ]_vars

C28_OneOfThePaths ==
    \A c \in Callers :
        (run[c].pc = "done" /\ run[c].outcome # "hit") => OnAPath(run[c])

\* The only run off the paths is the one whose sensor tier succeeded and
\* whose computation raised.
C28_PathsOrComputeRaised ==
    \A c \in Callers :
        (run[c].pc = "done" /\ run[c].outcome # "hit") =>
            \/ OnAPath(run[c])
            \/ /\ run[c].sensor = "ok" /\ run[c].satellite = "none"
               /\ run[c].compute = "raised"

--------------------------------------------------------------------------
\* C29: for each zone the timestamp_unix of the cached snapshot never
\* decreases from one replacement of the cache entry to the next, under
\* every interleaving of overlapping runs for the zone: a run that started
\* earlier never overwrites the snapshot of a run that started later.
C29_TimestampNeverDecreases ==
    [][\A z \in ZONES :
        (RAM_CACHE[z] # NoSnapshot /\ RAM_CACHE'[z] # NoSnapshot) =>
            RAM_CACHE'[z].timestamp_unix >= RAM_CACHE[z].timestamp_unix
      ]_vars

--------------------------------------------------------------------------
\* C30: a sensor reading that the orchestrator rejects as stale (its source
\* timestamp more than 3600 s before now) is never written to the stored
\* readings, in particular not under the current time; in the single-node
\* path and in the multi-node path.

\* The answer ag carries a PM2.5 value and is more than an hour old.
RejectedAsStale(ag) ==
    /\ ag.kind = "200"
    /\ PyOr(ag.pm02_corrected, ag.pm02) # None
    /\ parse_timestamp(ag.timestamp) # None
    /\ now - parse_timestamp(ag.timestamp) > STALE_LIMIT

C30_StaleNeverStored ==
    [][(/\ call.fn = "fetch_airgradient_common"
        /\ ~call.applied /\ call'.applied
        /\ RejectedAsStale(call.ag)) =>
            /\ call'.out.tier = "failed"
            /\ rows' = rows
      ]_vars

\* The multi-node path: a node whose reading is stale leaves the stored
\* readings of its key as they were.
C30_MultiNodeStaleNotStored ==
    [][(aggs' # aggs /\ tokens.airgradient_token) =>
        \A i \in 1..Len(TestNodes) :
            StatusOf(lastAgg', i) = "stale" =>
                /\ now - parse_timestamp(lastAgg'.resps[i].timestamp) > 3600
                /\ RowsOf(rows', NodeKey(AggZone, TestNodes[i]))
                        = RowsOf(rows, NodeKey(AggZone, TestNodes[i]))
      ]_vars

--------------------------------------------------------------------------
\* C31: a get_zone_data run that ends in failure leaves the zone cache
\* unchanged: the entry of the zone, when there is one, keeps its content
\* and its timestamp_unix (the failure is not cached, the stale entry is
\* not stamped again), and a call without force_refresh that finds an entry
\* at least 900 s old starts an upstream fetch.

\* The step ends the run of c in failure: stale entry served or error raised.
EndsInFailure(c) ==
    /\ run[c].pc \in {"backfill", "sensor", "satellite"}
    /\ run'[c].pc = "done"
    /\ run'[c].outcome \in {"stale", "error"}

C31_FailureLeavesCache ==
    [][\A c \in Callers :
        /\ EndsInFailure(c) =>
              /\ RAM_CACHE' = RAM_CACHE
              /\ run'[c].outcome = "stale" => run'[c].result = run[c].cached_data
        /\ (/\ run[c].pc = "idle" /\ run'[c].pc # "idle"
            /\ ~run'[c].force_refresh
            /\ RAM_CACHE[run'[c].zone_id] # NoSnapshot
            /\ now - RAM_CACHE[run'[c].zone_id].timestamp_unix >= CACHE_DURATION)
                => run'[c].pc \in {"backfill", "sensor", "satellite"}
      ]_vars

\* A call made 900 s after the entry was stored, without force_refresh,
\* went upstream, failed in both tiers and served the entry, which is still
\* in the cache with the timestamp of the run that stored it.
C31_Witness ==
    \E c \in Callers :
        /\ run[c].pc = "done"
        /\ run[c].outcome = "stale"
        /\ ~run[c].force_refresh
        /\ run[c].satellite = "failed"
        /\ RAM_CACHE[run[c].zone_id] = run[c].cached_data
        /\ run[c].current_time - RAM_CACHE[run[c].zone_id].timestamp_unix = CACHE_DURATION

--------------------------------------------------------------------------
\* get_zone_data for the two multi-node zones, with runs that overlap and
\* spike records of both zones present at the start.

FrameZones == {"srinagar", "jammu_city"}

FrameKeys == {NodeKey(z, NodesOf(z)[i]) : z \in FrameZones, i \in 1..2}

\* A record in grace, a record whose grace is over, or no record.
FrameSpikes == {None, T0 - (SPIKE_GRACE_PERIOD \div 2), T0 - SPIKE_GRACE_PERIOD}

FrameSatResps == {SatResp("exception", None, None), SatResp("200", 40, 90)}

InitFrame ==
    /\ now = T0
    /\ ticks = 0
    /\ tokens = [airgradient_token |-> TRUE, jammu_airgradient_token |-> TRUE]
    /\ RAM_CACHE = [z \in FrameZones |-> NoSnapshot]
    /\ SPIKE_CACHE \in [FrameKeys -> FrameSpikes]
    /\ rows = {}
    /\ run = [c \in Callers |-> IdleRun]
    /\ lastAgg = NoAgg
    /\ aggs = 0
    /\ firstSaved = [k \in DbKeys |-> NoRow]
    /\ call = NoCall
    /\ bg = IdleLoop

NextFrame ==
    \/ \E c \in Callers, z \in FrameZones : Call(c, z, FALSE)
    \/ \E c \in Callers : \E rs \in NodeResps(run[c].current_time) :
            SensorDoneMulti(c, rs, FALSE)
    \/ \E c \in Callers, sat \in FrameSatResps : SatelliteDone(c, sat, FALSE)

SpecFrame == InitFrame /\ [][NextFrame]_vars

--------------------------------------------------------------------------
\* C32: a get_zone_data run for zone Z modifies no cache entry other than
\* Z's and creates, updates or deletes no spike record other than those
\* keyed by Z and one of Z's node names; the entries and records of every
\* other zone are unchanged by it, also when runs for several zones overlap.

\* The keys of the spike records of zone z.
KeysOf(z) == {NodeKey(z, NodesOf(z)[i]) : i \in 1..Len(NodesOf(z))}

C32_OnlyOwnZone ==
    [][\A c \in Callers :
        (run'[c] # run[c]) =>
            /\ \A z \in DOMAIN RAM_CACHE :
                  z # run'[c].zone_id => RAM_CACHE'[z] = RAM_CACHE[z]
            /\ \A k \in DOMAIN SPIKE_CACHE :
                  k \notin KeysOf(run'[c].zone_id) => SPIKE_CACHE'[k] = SPIKE_CACHE[k]
      ]_vars

\* While a run for "jammu_city" waited for its nodes, a run for "srinagar"
\* stored its snapshot, deleted the expired record of one of its nodes and
\* stored a new record for the other; the records of "jammu_city", one in
\* grace and one expired, and its empty cache entry are as they were.
C32_Witness ==
    /\ run["task1"].zone_id = "jammu_city" /\ run["task1"].pc = "sensor"
    /\ run["task2"].zone_id = "srinagar" /\ run["task2"].outcome = "fresh"
    /\ RAM_CACHE["srinagar"] = run["task2"].result
    /\ RAM_CACHE["jammu_city"] = NoSnapshot
    /\ lastAgg # NoAgg
    /\ lastAgg.spike_before["srinagar_Kanipora"] = None
    /\ SPIKE_CACHE["srinagar_Kanipora"] = T0
    /\ lastAgg.spike_before["srinagar_Bemina"] = T0 - SPIKE_GRACE_PERIOD
    /\ SPIKE_CACHE["srinagar_Bemina"] = None
    /\ SPIKE_CACHE["jammu_city_Talab Tillo"] = T0 - (SPIKE_GRACE_PERIOD \div 2)
    /\ SPIKE_CACHE["jammu_city_Gandhi Nagar"] = T0 - SPIKE_GRACE_PERIOD

--------------------------------------------------------------------------
\* The two spike rules of fetch_multi_node_airgradient on their own: node A
\* answers with readings at and around the limits, node B with a steady
\* reading, and readings of node A are stored from earlier calls.

SpikeNodes == <<"A", "B">>

SpikeKey == NodeKey(AggZone, "A")

\* Calls after which the aggregator is no longer followed.
MaxSpikeAggs == 2

\* How long before the start the stored readings of node A were taken.
PriorOffsets == {7500, 3600, 1801, 1800}

PriorRows(offsets) == {Row(SpikeKey, T0 - d, Rat(30, 1), Rat(80, 1)) : d \in offsets}

SpikeAnswers(t) ==
    {Reading(230, 80, t), Reading(231, 80, t), Reading(231, 80, t - 3600),
     Reading(231, 80, None), Reading(650, 600, t), Reading(651, 80, t),
     Reading(30, 601, t)}

InitSpike ==
    /\ now = T0
    /\ ticks = 0
    /\ tokens = [airgradient_token |-> TRUE, jammu_airgradient_token |-> TRUE]
    /\ RAM_CACHE = [z \in ZONES |-> NoSnapshot]
    /\ SPIKE_CACHE = [k \in NodeKeys |-> None]
    /\ rows \in {PriorRows(offsets) : offsets \in SUBSET PriorOffsets}
    /\ run = [c \in Callers |-> IdleRun]
    /\ lastAgg = NoAgg
    /\ aggs = 0
    /\ firstSaved = [k \in DbKeys |-> NoRow]
    /\ call = NoCall
    /\ bg = IdleLoop

AggregateSpike(a) ==
    /\ aggs < MaxSpikeAggs
    /\ aggs' = aggs + 1
    /\ LET resps == <<a, Reading(30, 80, now)>>
           res == fetch_multi_node_airgradient(AggZone, SpikeNodes, tokens.airgradient_token,
                      resps, now, now, SPIKE_CACHE, rows)
       IN  /\ SPIKE_CACHE' = res.spike
           /\ rows' = res.rows
           /\ lastAgg' = AggRecord(AggZone, SpikeNodes, resps, now, now, SPIKE_CACHE, res)
    /\ UNCHANGED <<now, ticks, tokens, RAM_CACHE, run, firstSaved, call, bg>>

NextSpike ==
    \/ \E a \in SpikeAnswers(now) : AggregateSpike(a)
    \/ AggTick

SpecSpike == InitSpike /\ [][NextSpike]_vars

--------------------------------------------------------------------------
\* C33: a node that is not in grace and reports a fresh reading with
\* PM2.5 > 650 or PM10 > 600 is excluded from the average of that same
\* aggregation, gets status spike_detected, and a spike record with the
\* current time is stored for it; a reading with PM2.5 exactly 650 and PM10
\* exactly 600 does not trigger the rule.

\* Node A is not in grace when the call starts.
NotInGrace == SPIKE_CACHE[SpikeKey] = None \/ now - SPIKE_CACHE[SpikeKey] >= 3600

\* The answer of node A to the call of this step.
AnswerA == lastAgg'.resps[1]

C33_AbsoluteThreshold ==
    [][(aggs' # aggs /\ NotInGrace) =>
        /\ (NodePM25(AnswerA) > 650 \/ NodePM10(AnswerA) > 600) =>
              /\ StatusOf(lastAgg', 1) = "spike_detected"
              /\ SPIKE_CACHE'[SpikeKey] = now
              /\ ActiveNodes(lastAgg') = {2}
              /\ lastAgg'.current_comps.pm2_5 = Rat(30, 1)
              /\ lastAgg'.current_comps.pm10 = Rat(80, 1)
              /\ RowsOf(rows', SpikeKey) = RowsOf(rows, SpikeKey)
        /\ (/\ NodePM25(AnswerA) = 650 /\ NodePM10(AnswerA) = 600
            /\ RowsOf(rows, SpikeKey) = {}) =>
              /\ StatusOf(lastAgg', 1) = "active"
              /\ SPIKE_CACHE'[SpikeKey] = None
              /\ lastAgg'.current_comps.pm2_5 = Rat(680, 2)
      ]_vars

\* Node A read PM10 601 with PM2.5 30 and was excluded with a spike record of
\* the time of the call; the average is the reading of node B.
C33_Witness ==
    /\ lastAgg # NoAgg
    /\ lastAgg.nodes = SpikeNodes
    /\ lastAgg.resps[1] = Reading(30, 601, lastAgg.current_time)
    /\ lastAgg.spike_before[SpikeKey] = None
    /\ StatusOf(lastAgg, 1) = "spike_detected"
    /\ SPIKE_CACHE[SpikeKey] = lastAgg.current_time
    /\ lastAgg.current_comps.node_count = 1

--------------------------------------------------------------------------
\* C34: a node that passes the absolute-threshold rule is excluded by the
\* rate-of-change rule exactly when the persisted reading of the node
\* nearest to (reading time - 3600 s) lies within 1.5 h of that target and
\* the current PM2.5 exceeds the PM2.5 of that reading by more than 200;
\* when there is no such earlier reading the rule does not fire and the node
\* is included.

\* The rule as stated, over the persisted readings of the node.
RateRule(table, resp, t) ==
    LET stored == RowsOf(table, SpikeKey)
        target == ReadingTs(resp, t) - 3600
    IN  /\ stored # {}
        /\ LET nearest == closest_reading(stored, target)
           IN  /\ Abs(nearest.timestamp - target) < 5400
               /\ NodePM25(resp) * nearest.pm2_5.den - nearest.pm2_5.num
                      > 200 * nearest.pm2_5.den

\* The answer of node A reaches the spike rules and passes the absolute one.
ReachesRateRule(resp, t) ==
    /\ resp.kind = "200"
    /\ NodePM25(resp) # None
    /\ ~(parse_timestamp(resp.timestamp) # None /\ t - parse_timestamp(resp.timestamp) > 3600)
    /\ NodePM25(resp) <= 650
    /\ NodePM10(resp) <= 600

C34_RateOfChange ==
    [][(aggs' # aggs /\ NotInGrace /\ ReachesRateRule(AnswerA, now)) =>
        /\ (StatusOf(lastAgg', 1) = "spike_detected") <=> RateRule(rows, AnswerA, now)
        /\ (StatusOf(lastAgg', 1) = "active") <=> ~RateRule(rows, AnswerA, now)
      ]_vars

\* The rule of the claim with the readings the aggregator looks at: those of
\* the last two hours.
C34_RateOfChangeLastTwoHours ==
    [][(aggs' # aggs /\ NotInGrace /\ ReachesRateRule(AnswerA, now)) =>
        /\ (StatusOf(lastAgg', 1) = "spike_detected")
              <=> RateRule(get_history(rows, SpikeKey, 2, now), AnswerA, now)
        /\ (StatusOf(lastAgg', 1) = "active")
              <=> ~RateRule(get_history(rows, SpikeKey, 2, now), AnswerA, now)
      ]_vars

--------------------------------------------------------------------------
\* C35: in _get_merged_history an estimated point is put into a bucket only
\* if its hour is strictly before the sensor start boundary (every estimated
\* point is used when there is no persisted reading), so no bucket at or
\* after the boundary holds an estimated value and no emitted point blends
\* estimated and sensor values; the PM2.5 and PM10 of a sensor hour are
\* those of the latest persisted reading of that hour.

\* The sensor start boundary (None without a reading of the last 24 h), the
\* estimated points put into buckets and the buckets after both loops.
Boundary == IF RecentReadings = {} THEN None ELSE ClipStart

KeptPoints == SelectSeq(call.om_points, LAMBDA pt : KeepsEstimated(pt.ts, Boundary))

BucketHours == {KeptPoints[i].ts : i \in 1..Len(KeptPoints)} \cup SensorHours

BucketOf(h) == Bucket(h, KeptPoints, RecentReadings, call.tz)

HoldsEstimated(b) == b.no2 # Absent \/ b.so2 # Absent
HoldsSensor(b) == b.pm2_5 # Absent \/ b.pm10 # Absent

\* The latest persisted reading of the hour h.
LatestOf(h) ==
    CHOOSE r \in RecentReadings :
        /\ HourTop(r.timestamp, call.tz) = h
        /\ \A q \in RecentReadings :
              HourTop(q.timestamp, call.tz) = h => q.timestamp <= r.timestamp

C35_NoBlending ==
    Merged =>
        /\ \A i \in 1..Len(call.om_points) :
              (\E j \in 1..Len(KeptPoints) : KeptPoints[j] = call.om_points[i])
                <=> (RecentReadings = {} \/ call.om_points[i].ts < ClipStart)
        /\ \A h \in BucketHours :
              /\ (RecentReadings # {} /\ h >= ClipStart) => ~HoldsEstimated(BucketOf(h))
              /\ ~(HoldsEstimated(BucketOf(h)) /\ HoldsSensor(BucketOf(h)))
        /\ \A i \in 1..Len(call.out) :
              /\ ~(HoldsEstimated(call.out[i].comps) /\ HoldsSensor(call.out[i].comps))
              /\ call.out[i].ts \in SensorHours =>
                    /\ call.out[i].comps.pm2_5 = LatestOf(call.out[i].ts).pm2_5
                    /\ call.out[i].comps.pm10 = LatestOf(call.out[i].ts).pm10

\* The estimated series holds the hour of the boundary and hours before it;
\* the hour of the boundary was emitted with the sensor values alone, and the
\* current hour, with two readings, carries the later one.
C35_Witness ==
    /\ Merged
    /\ RecentReadings # {}
    /\ ClipStart \in EstimatedHours
    /\ \E h \in EstimatedHours : h < ClipStart /\ HoldsEstimated(BucketOf(h))
    /\ \E i \in 1..Len(call.out) :
          /\ call.out[i].ts = ClipStart
          /\ ~HoldsEstimated(call.out[i].comps)
    /\ \E i \in 1..Len(call.out) :
          /\ Cardinality({r \in RecentReadings :
                            HourTop(r.timestamp, call.tz) = call.out[i].ts}) = 2
          /\ call.out[i].comps.pm2_5 = Rat(36, 1)

--------------------------------------------------------------------------
\* C36: whenever at least one persisted reading of the zone exists in the
\* last 24 h, every point _get_merged_history emits comes from an hour
\* bucket that holds a persisted sensor reading: every bucket built from
\* estimated points lies before the clip start and is discarded, so the
\* estimated series contributes nothing to the output.
C36_EstimatesDiscarded ==
    (Merged /\ RecentReadings # {}) =>
        /\ \A h \in BucketHours :
              HoldsEstimated(BucketOf(h)) => (h < ClipStart /\ h \notin EmittedHours)
        /\ \A i \in 1..Len(call.out) :
              /\ call.out[i].ts \in SensorHours
              /\ HoldsSensor(call.out[i].comps)
              /\ ~HoldsEstimated(call.out[i].comps)

\* One reading, of the last minute; the estimated series holds hours of the
\* last day before the hour of that reading, and the merged history is the
\* single point of the reading.
C36_Witness ==
    /\ Merged
    /\ Cardinality(RecentReadings) = 1
    /\ \E h \in EstimatedHours : now - 86400 <= h /\ h < ClipStart
    /\ \E h \in BucketHours : HoldsEstimated(BucketOf(h))
    /\ Len(call.out) = 1
    /\ call.out[1].ts = HourTop(now - 60, call.tz)

--------------------------------------------------------------------------
\* Aggregation cycles that keep occurring while node A, whose last accepted
\* reading is 30, reports fresh readings below the absolute limits and more
\* than 200 above it.  The loop over the nodes treats each node on its own,
\* so the list here holds node A only; while it is excluded the call raises
\* (no node is active), its spike record being stored all the same.

\* Half grace periods after which the clock is no longer followed.
MaxRecoverTicks == 5

\* The node list of the cycles: node A alone.
RecoverNodes == <<"A">>

RecoverAnswers(t) == {<<a>> : a \in {Reading(231, 80, t), Reading(300, 80, t)}}

InitRecover ==
    /\ now = T0
    /\ ticks = 0
    /\ tokens = [airgradient_token |-> TRUE, jammu_airgradient_token |-> TRUE]
    /\ RAM_CACHE = [z \in ZONES |-> NoSnapshot]
    /\ SPIKE_CACHE = [k \in NodeKeys |-> None]
    /\ rows \in {PriorRows({d}) : d \in {1800, 3600}}
    /\ run = [c \in Callers |-> IdleRun]
    /\ lastAgg = NoAgg
    /\ aggs = 0
    /\ firstSaved = [k \in DbKeys |-> NoRow]
    /\ call = NoCall
    /\ bg = IdleLoop

\* One cycle of the background refresh reaches the aggregator.
AggregateRecover(resps) ==
    /\ LET res == fetch_multi_node_airgradient(AggZone, RecoverNodes, tokens.airgradient_token,
                      resps, now, now, SPIKE_CACHE, rows)
       IN  /\ SPIKE_CACHE' = res.spike
           /\ rows' = res.rows
           /\ lastAgg' = AggRecord(AggZone, RecoverNodes, resps, now, now, SPIKE_CACHE, res)
    /\ UNCHANGED <<now, ticks, tokens, RAM_CACHE, run, aggs, firstSaved, call, bg>>

RecoverTick ==
    /\ ticks < MaxRecoverTicks
    /\ now' = now + AggTickLen
    /\ ticks' = ticks + 1
    /\ UNCHANGED <<tokens, RAM_CACHE, SPIKE_CACHE, rows, run, lastAgg, aggs, firstSaved, call, bg>>

Cycle == \E resps \in RecoverAnswers(now) : AggregateRecover(resps)

NextRecover == Cycle \/ RecoverTick

\* start_background_loop refreshes every zone and sleeps, for ever: time
\* passes and the aggregator is called again.
FairSpecRecover ==
    InitRecover /\ [][NextRecover]_vars /\ WF_vars(RecoverTick) /\ WF_vars(Cycle)

--------------------------------------------------------------------------
\* C37: a node flagged by the rate-of-change rule that afterwards keeps
\* reporting fresh readings below the absolute limits is not excluded for
\* ever: while aggregation cycles keep occurring it eventually gets status
\* active again, even if its PM2.5 stays more than 200 above its last
\* accepted reading.
FlaggedA ==
    /\ lastAgg # NoAgg
    /\ StatusOf(lastAgg, 1) = "spike_detected"

ActiveA == lastAgg # NoAgg /\ StatusOf(lastAgg, 1) = "active"

C37_ActiveAgain == FlaggedA ~> ActiveA

\* Node A was flagged and its grace has ended; the reading of 30 is still the
\* only accepted one when a reading of 231 is given status active.
C37_Witness ==
    /\ ActiveA
    /\ lastAgg.spike_before[SpikeKey] # None
    /\ lastAgg.current_time - lastAgg.spike_before[SpikeKey] >= 3600
    /\ lastAgg.resps[1] = Reading(231, 80, lastAgg.current_time)
    /\ \A r \in RowsOf(rows, SpikeKey) :
          r.timestamp < lastAgg.current_time => r.pm2_5 = Rat(30, 1)

--------------------------------------------------------------------------
\* _get_merged_history with the index of every hour computed (lines 66-121):
\* the estimated points carry o3, no2, so2 or co, a persisted reading may
\* hold NULL in its pm10 column, and the points emitted carry aqi and us_aqi.

\* A stored or estimated concentration in hundredths, None for NULL.
Hundredths(v) == IF v = PyNone THEN None ELSE (v.num * 100) \div v.den

\* history_buckets[ts] as the items of the dict in insertion order: the
\* estimated parameters in the order the points were appended, then pm2_5
\* and pm10 of the latest persisted reading of the hour.
HourItems(ts, kept, local_data, tz) ==
    LET inHour == {r \in local_data : HourTop(r.timestamp, tz) = ts}
        latest == CHOOSE r \in inHour : \A q \in inHour : q.timestamp <= r.timestamp
        params == SelectSeq(<<"o3", "no2", "so2", "co">>,
                            LAMBDA p : LastVal(kept, ts, p) # Absent)
    IN  [i \in 1..Len(params) |-> <<params[i], Hundredths(LastVal(kept, ts, params[i]))>>]
        \o (IF inHour = {} THEN << >>
            ELSE <<<<"pm2_5", Hundredths(latest.pm2_5)>>, <<"pm10", Hundredths(latest.pm10)>>>>)

\* final_history: one point per bucket inside the clip window whose
\* calculate_overall_aqi call does not raise (try / except: continue).
merged_history_points(zone_id, om_points, table, now_ts, tz) ==
    LET local_data == get_history(table, zone_id, 24, now_ts)
        sensor_start_ts ==
            IF local_data = {} THEN None
            ELSE HourTop(MinOf({r.timestamp : r \in local_data}), tz)
        kept == SelectSeq(om_points, LAMBDA pt : KeepsEstimated(pt.ts, sensor_start_ts))
        keys == {kept[i].ts : i \in 1..Len(kept)}
                    \cup {HourTop(r.timestamp, tz) : r \in local_data}
        clip_start_ts == IF Truthy(sensor_start_ts) THEN sensor_start_ts
                         ELSE now_ts - 24 * 3600
        emitted == {ts \in keys :
                        /\ InClip(ts, clip_start_ts, now_ts)
                        /\ ~calculate_overall_aqi_items(
                                HourItems(ts, kept, local_data, tz)).raised}
        sorted_times == Ascending(emitted)
    IN  [i \in 1..Len(sorted_times) |->
            LET aqi_res == calculate_overall_aqi_items(
                               HourItems(sorted_times[i], kept, local_data, tz))
            IN  [ts |-> sorted_times[i], aqi |-> aqi_res.aqi, us_aqi |-> aqi_res.us_aqi]]

\* Persisted readings: one a few hours old, one of the previous hour with
\* NULL for pm10, one of the last minute.
HistoryReadings ==
    {Row("rajouri_town", HourBefore(3) + 500, Rat(30, 1), Rat(80, 1)),
     Row("rajouri_town", HourBefore(1) + 2700, Rat(40, 1), PyNone),
     Row("rajouri_town", T0 - 60, Rat(35, 1), Rat(85, 1))}

HistoryOmTimes == {HourBefore(5), HourBefore(4), HourBefore(2), HourBefore(0)}

\* The estimated series: ozone for every hour, nitrogen dioxide for the
\* hours of gas.
HistoryOmPoints(times, gas) ==
    LET ts == Ascending(times)
        one(t) == <<[ts |-> t, param |-> "o3", val |-> 50]>>
                    \o (IF t \in gas THEN <<[ts |-> t, param |-> "no2", val |-> 20]>>
                        ELSE << >>)
        RECURSIVE all(_)
        all(i) == IF i > Len(ts) THEN << >> ELSE one(ts[i]) \o all(i + 1)
    IN  all(1)

InitHistory ==
    /\ Quiet
    /\ rows \in SUBSET HistoryReadings
    /\ call \in {[fn |-> "merged_history_points", zone_id |-> "rajouri_town",
                  om_points |-> HistoryOmPoints(times, gas), tz |-> 0,
                  applied |-> FALSE, out |-> << >>] :
                        times \in SUBSET HistoryOmTimes, gas \in SUBSET HistoryOmTimes}

MergePoints ==
    /\ call.fn = "merged_history_points"
    /\ ~call.applied
    /\ call' = [call EXCEPT !.applied = TRUE,
                            !.out = merged_history_points(call.zone_id, call.om_points,
                                                          rows, now, call.tz)]
    /\ UNCHANGED <<core, firstSaved, bg>>

SpecHistory == InitHistory /\ [][MergePoints]_vars

--------------------------------------------------------------------------
\* C38: a failure while computing the index of one retained hour never
\* aborts _get_merged_history: that hour is omitted and a point is still
\* emitted for every other retained hour; an hour for which no index can be
\* computed (a bucket with no recognised pollutant) is skipped rather than
\* emitted.

PointsMerged == call.fn = "merged_history_points" /\ call.applied

\* The hours inside the clip window that hold data, and what they hold.
RetainedHours ==
    {h \in (IF RecentReadings = {} THEN EstimatedHours ELSE SensorHours) :
        ClipStart <= h /\ h <= now}

ItemsOfHour(h) ==
    HourItems(h, IF RecentReadings = {} THEN call.om_points ELSE << >>,
              RecentReadings, call.tz)

\* The computation of the hour fails: a recognised key holds no number.
HourFails(h) ==
    \E i \in 1..Len(ItemsOfHour(h)) :
        key_map(LowerStrip(ItemsOfHour(h)[i][1])) # "" /\ ItemsOfHour(h)[i][2] = None

\* The hour holds a pollutant of the alias table.
HourRecognised(h) ==
    \E i \in 1..Len(ItemsOfHour(h)) : key_map(LowerStrip(ItemsOfHour(h)[i][1])) # ""

C38_BadHoursSkipped ==
    PointsMerged =>
        {call.out[i].ts : i \in 1..Len(call.out)}
            = {h \in RetainedHours : ~HourFails(h) /\ HourRecognised(h)}

\* The part that holds: the hours whose computation fails are omitted and
\* every other retained hour is emitted, the hours without a recognised
\* pollutant among them, with index 0.
C38_FailedHoursSkipped ==
    PointsMerged =>
        /\ {call.out[i].ts : i \in 1..Len(call.out)}
              = {h \in RetainedHours : ~HourFails(h)}
        /\ \A i \in 1..Len(call.out) :
              ~HourRecognised(call.out[i].ts)
                  => (call.out[i].aqi = 0 /\ call.out[i].us_aqi = 0)

--------------------------------------------------------------------------
\* The fields read from a sensor answer: fetch_airgradient_common on answers
\* whose corrected and raw PM fields are absent, 0 or a positive value.

FieldValues == {None, 0, 25}

InitFields ==
    /\ Quiet
    /\ rows = {}
    /\ call \in {[fn |-> "fetch_airgradient_common", zone_id |-> SingleZone,
                  ag |-> SensorResp("200", c25, r25, c10, r10, T0), om |-> "200",
                  applied |-> FALSE,
                  out |-> [raised |-> FALSE, tier |-> "pending", current_comps |-> NoData]] :
                        c25 \in FieldValues, r25 \in {None, 0, 30},
                        c10 \in FieldValues, r10 \in {None, 80}}

SpecFields == InitFields /\ [][FetchSingle]_vars

--------------------------------------------------------------------------
\* C39: for each of PM2.5, PM10, temperature and humidity of a sensor
\* answer the value consumed is the corrected field whenever the corrected
\* field is present and not null, a corrected value of 0 included, and the
\* raw field only otherwise; a reading is unusable only when PM2.5 is absent
\* or null.

\* The corrected field when it is there, else the raw one.
Preferred(corrected, raw) == IF corrected # None THEN corrected ELSE raw

FieldsRead == call.fn = "fetch_airgradient_common" /\ call.applied

C39_CorrectedPreferred ==
    FieldsRead =>
        /\ call.out.current_comps.pm2_5
                = Conc(Preferred(call.ag.pm02_corrected, call.ag.pm02))
        /\ call.out.current_comps.pm10
                = Conc(Preferred(call.ag.pm10_corrected, call.ag.pm10))
        /\ (call.out.tier = "failed")
                <=> (call.ag.pm02_corrected = None /\ call.ag.pm02 = None)

\* What the code does: Python's "corrected or raw", which takes the raw field
\* also when the corrected one is 0.
C39_CorrectedUnlessFalsy ==
    FieldsRead =>
        /\ call.out.current_comps.pm2_5
                = Conc(IF call.ag.pm02_corrected \notin {None, 0}
                       THEN call.ag.pm02_corrected ELSE call.ag.pm02)
        /\ call.out.current_comps.pm10
                = Conc(IF call.ag.pm10_corrected \notin {None, 0}
                       THEN call.ag.pm10_corrected ELSE call.ag.pm10)
        /\ (call.out.tier = "failed")
                <=> (call.ag.pm02_corrected \in {None, 0} /\ call.ag.pm02 = None)

--------------------------------------------------------------------------
\* ensure_history_exists and fetch_airgradient_history (lines 16-64) on
\* their own.  An entry of the past-readings answer carries the corrected
\* and raw PM fields (None: absent or null) and a timestamp: a number of
\* seconds, None (absent) or IsoTs (a string, as in the current reading).
\* Timestamps in milliseconds are left out: the threshold of line 36 does
\* not fit the integers of the model.

IsoTs == 0 - 3

PastEntry(c25, r25, c10, r10, ts) ==
    [pm02_corrected |-> c25, pm02 |-> r25, pm10_corrected |-> c10, pm10 |-> r10,
     timestamp |-> ts]

PastResp(kind, entries) == [kind |-> kind, entries |-> entries]

\* Lines 25-50: [] on a non-success status and on any exception, the
\* comparison ts > 9999999999 of a string among them; else the entries whose
\* "corrected or raw" PM2.5 is not None.
fetch_airgradient_history(resp) ==
    IF resp.kind # "200" THEN << >>
    ELSE IF \E i \in 1..Len(resp.entries) : resp.entries[i].timestamp = IsoTs THEN << >>
    ELSE LET usable == SelectSeq(resp.entries,
                           LAMBDA e : PyOr(e.pm02_corrected, e.pm02) # None)
         IN  [i \in 1..Len(usable) |->
                [ts |-> IF usable[i].timestamp = None THEN 0 ELSE usable[i].timestamp,
                 pm2_5 |-> PyOr(usable[i].pm02_corrected, usable[i].pm02),
                 pm10 |-> IF Truthy(PyOr(usable[i].pm10_corrected, usable[i].pm10))
                          THEN PyOr(usable[i].pm10_corrected, usable[i].pm10) ELSE 0]]

\* Lines 52-64: the request is made when get_history(zone_id, hours=1) is
\* empty, and every entry of the history is saved under its ts.
ensure_history_exists(table, zone_id, resp, wall) ==
    IF get_history(table, zone_id, BACKFILL_CHECK_HOURS, wall) # {}
    THEN [issued |-> FALSE, rows |-> table]
    ELSE [issued |-> TRUE,
          rows |-> save_history(table, zone_id, fetch_airgradient_history(resp))]

\* Calls after which ensure_history_exists is no longer followed.
MaxBackfills == 2

PastEntries ==
    {PastEntry(None, 30, None, 80, T0 - 7200), PastEntry(25, 30, 70, 80, T0 - 5400),
     PastEntry(None, None, None, 80, T0 - 9000), PastEntry(0, None, None, 80, T0 - 10800),
     PastEntry(None, 30, None, 80, T0 - 1800), PastEntry(None, 30, None, 80, IsoTs)}

PastResps ==
    {PastResp("exception", << >>), PastResp("non200", << >>)}
        \cup {PastResp("200", es) : es \in UNION {[1..n -> PastEntries] : n \in 0..2}}

\* Readings of the zone in the store: half an hour old, exactly an hour old,
\* and one two hours old whose values differ from the entry of that time.
BackfillReadings ==
    {Row(SingleZone, T0 - 1800, Rat(31, 1), Rat(81, 1)),
     Row(SingleZone, T0 - 3600, Rat(32, 1), Rat(82, 1)),
     Row(SingleZone, T0 - 7200, Rat(33, 1), Rat(83, 1))}

InitBackfill ==
    /\ Quiet
    /\ rows \in SUBSET BackfillReadings
    /\ call \in {[fn |-> "ensure_history_exists", zone_id |-> SingleZone, resp |-> resp,
                  runs |-> 0, issued |-> FALSE] : resp \in PastResps}

\* One call of ensure_history_exists; the past-readings request, when it is
\* made, gets the answer call.resp.
Backfill ==
    /\ call.fn = "ensure_history_exists"
    /\ call.runs < MaxBackfills
    /\ LET res == ensure_history_exists(rows, call.zone_id, call.resp, now)
       IN  /\ rows' = res.rows
           /\ call' = [call EXCEPT !.runs = @ + 1, !.issued = res.issued]
    /\ UNCHANGED <<now, ticks, tokens, RAM_CACHE, SPIKE_CACHE, run, lastAgg, aggs,
                   firstSaved, bg>>

SpecBackfill == InitBackfill /\ [][Backfill]_vars

--------------------------------------------------------------------------
\* C40: in the single-node sensor path the one-day backfill request is
\* issued if and only if the store holds no reading of the zone within the
\* last hour; when it is issued, each returned entry with non-null PM2.5 is
\* persisted under its own timestamp, so repeating the backfill adds no
\* second row for an entry already stored.

\* The step is a call of ensure_history_exists.
Backfilled == call.fn = "ensure_history_exists" /\ call'.runs # call.runs

\* The entries of the answer, and those with a PM2.5 that is not null.
EntriesOf(resp) ==
    IF resp.kind = "200" THEN {resp.entries[i] : i \in 1..Len(resp.entries)} ELSE {}

HasPM25(e) == e.pm02_corrected # None \/ e.pm02 # None

RowsAt(table, zone_id, ts) == {w \in table : w.zone_id = zone_id /\ w.timestamp = ts}

C40_BackfillPersistsEntries ==
    [][Backfilled =>
        /\ call'.issued <=> ~(\E w \in RowsOf(rows, call.zone_id) : w.timestamp > now - 3600)
        /\ call'.issued =>
              \A e \in EntriesOf(call.resp) :
                  (HasPM25(e) /\ e.timestamp \notin {None, IsoTs})
                      => Cardinality(RowsAt(rows', call.zone_id, e.timestamp)) = 1
        /\ rows \subseteq rows'
      ]_vars

\* The part that holds: the request is issued exactly when no reading of
\* the last hour is stored, nothing stored is replaced or doubled, and a
\* repeated backfill with the same answer leaves the store as it is.
C40_IssuedIffAndIdempotent ==
    [][Backfilled =>
        /\ call'.issued <=> ~(\E w \in RowsOf(rows, call.zone_id) : w.timestamp > now - 3600)
        /\ ~call'.issued => rows' = rows
        /\ rows \subseteq rows'
        /\ \A w \in rows' :
              Cardinality(RowsAt(rows', w.zone_id, w.timestamp)) = 1
        /\ (call.runs >= 1 /\ call.issued /\ call'.issued) => rows' = rows
      ]_vars

====
